---- MODULE Spec2Model ----
(***************************************************************************)
(* Colour model and palette engine of backend/src/utils/color-helpers.ts:  *)
(* HEX / RGB / HSL conversion, parseColor, the five palette functions.     *)
(*                                                                         *)
(* Strings are TLA+ strings; a character is a string of length 1.          *)
(* Numbers are integers.  The source computes in IEEE-754 doubles and      *)
(* rounds with Math.round; here every Math.round argument is kept as an    *)
(* exact fraction num/den and rounded half up.  The two agree unless the   *)
(* exact value is k + 1/2 (there the double result depends on accumulated  *)
(* rounding error), so the input sets leave out the inputs on which some   *)
(* Math.round argument is exactly halfway (see Halfway, RgbExact,          *)
(* HslExact).                                                              *)
(***************************************************************************)
EXTENDS Integers, Sequences, FiniteSets, TLC

VARIABLES hist, db, ui

vars == <<hist, db, ui>>

(***************************************************************************)
(* JavaScript number and string primitives                                 *)
(***************************************************************************)

\* The value parseInt returns when no digit can be read.
NaN == -999999

\* Largest channel value, degrees in a turn, largest percentage.
MaxChannel == 255

HueTurn == 360

MaxPercent == 100

IsNaN(x) == x = NaN

Max2(a, b) == IF a >= b THEN a ELSE b

Min2(a, b) == IF a <= b THEN a ELSE b

Max3(a, b, c) == Max2(a, Max2(b, c))

Min3(a, b, c) == Min2(a, Min2(b, c))

\* Math.round(num / den) for den > 0: nearest integer, halves towards +infinity.
MathRound(num, den) == (2 * num + den) \div (2 * den)

\* num / den lies exactly halfway between two integers.
Halfway(num, den) == (2 * num) % (2 * den) = den

CharAt(s, i) == IF i >= 1 /\ i <= Len(s) THEN SubSeq(s, i, i) ELSE ""

UpperDigits == "0123456789ABCDEF"

LowerDigits == "0123456789abcdef"

LowerLetters == "abcdefghijklmnopqrstuvwxyz"

UpperLetters == "ABCDEFGHIJKLMNOPQRSTUVWXYZ"

\* The function that maps the i-th character of from to the i-th of to.
RECURSIVE CharMap(_, _)
CharMap(from, to) ==
  IF from = "" THEN [c \in {} |-> c]
  ELSE (Head(from) :> Head(to)) @@ CharMap(Tail(from), Tail(to))

\* The function that maps the i-th character of digits to first + i - 1.
RECURSIVE ValueMap(_, _)
ValueMap(digits, first) ==
  IF digits = "" THEN [c \in {} |-> 0]
  ELSE (Head(digits) :> first) @@ ValueMap(Tail(digits), first + 1)

UpperOf == CharMap(LowerLetters, UpperLetters)

LowerOf == CharMap(UpperLetters, LowerLetters)

DigitValues == ValueMap(LowerDigits, 0) @@ ValueMap("ABCDEF", 10)

UpperChar(c) == IF c \in DOMAIN UpperOf THEN UpperOf[c] ELSE c

LowerChar(c) == IF c \in DOMAIN LowerOf THEN LowerOf[c] ELSE c

RECURSIVE ToUpperCase(_)
ToUpperCase(s) ==
  IF s = "" THEN "" ELSE UpperChar(Head(s)) \o ToUpperCase(Tail(s))

RECURSIVE ToLowerCase(_)
ToLowerCase(s) ==
  IF s = "" THEN "" ELSE LowerChar(Head(s)) \o ToLowerCase(Tail(s))

IsWs(c) == c = " "

RECURSIVE TrimStart(_)
TrimStart(s) == IF s # "" /\ IsWs(Head(s)) THEN TrimStart(Tail(s)) ELSE s

RECURSIVE TrimEnd(_)
TrimEnd(s) ==
  IF s # "" /\ IsWs(CharAt(s, Len(s)))
  THEN TrimEnd(SubSeq(s, 1, Len(s) - 1))
  ELSE s

Trim(s) == TrimEnd(TrimStart(s))

\* Value of a digit character in the given radix, -1 when it is no digit of it.
DigitValue(c, radix) ==
  IF c \in DOMAIN DigitValues /\ DigitValues[c] < radix THEN DigitValues[c] ELSE -1

IsDigit(c) == DigitValue(c, 10) >= 0

IsHexDigit(c) == DigitValue(c, 16) >= 0

\* Number of leading characters of s that are digits of the radix.
RECURSIVE DigitRun(_, _)
DigitRun(s, radix) ==
  IF s # "" /\ DigitValue(Head(s), radix) >= 0
  THEN 1 + DigitRun(Tail(s), radix)
  ELSE 0

\* Value of a string of digits of the radix ("" is 0).
RECURSIVE DigitsValue(_, _)
DigitsValue(s, radix) ==
  IF s = "" THEN 0
  ELSE DigitsValue(SubSeq(s, 1, Len(s) - 1), radix) * radix
         + DigitValue(CharAt(s, Len(s)), radix)

\* parseInt(s, radix): leading white space, an optional sign, for radix 16 an
\* optional 0x, then the longest run of digits; NaN when that run is empty.
ParseInt(s, radix) ==
  LET t == TrimStart(s)
      neg == t # "" /\ Head(t) = "-"
      u == IF t # "" /\ Head(t) \in {"-", "+"} THEN Tail(t) ELSE t
      v == IF radix = 16 /\ Len(u) >= 2 /\ ToLowerCase(SubSeq(u, 1, 2)) = "0x"
           THEN SubSeq(u, 3, Len(u)) ELSE u
      n == DigitRun(v, radix)
      m == DigitsValue(SubSeq(v, 1, n), radix)
  IN IF n = 0 THEN NaN ELSE IF neg THEN -m ELSE m

\* Number.prototype.toString(radix) of a non-negative integer.
RECURSIVE NatToString(_, _)
NatToString(n, radix) ==
  IF n < radix THEN SubSeq(LowerDigits, n + 1, n + 1)
  ELSE NatToString(n \div radix, radix) \o SubSeq(LowerDigits, (n % radix) + 1, (n % radix) + 1)

NumberToString(n, radix) ==
  IF IsNaN(n) THEN "NaN"
  ELSE IF n < 0 THEN "-" \o NatToString(-n, radix)
  ELSE NatToString(n, radix)

(***************************************************************************)
(* Values                                                                  *)
(***************************************************************************)

Rgb(r, g, b) == [r |-> r, g |-> g, b |-> b]

Hsl(h, s, l) == [h |-> h, s |-> s, l |-> l]

ColorInfo(hex, rgb, hsl) == [hex |-> hex, rgb |-> rgb, hsl |-> hsl]

\* The Error thrown by parseColor (color-helpers.ts line 167).
InvalidFormat ==
  [error |-> "Invalid color format. Use HEX (#RRGGBB), RGB (rgb(r,g,b)), or HSL (hsl(h,s%,l%))"]

(***************************************************************************)
(* Conversions                                                             *)
(***************************************************************************)

\* hex.split('').map(char => char + char).join('')
RECURSIVE DoubleChars(_)
DoubleChars(s) ==
  IF s = "" THEN "" ELSE Head(s) \o Head(s) \o DoubleChars(Tail(s))

\* Faulty variant of StripHash: the leading '#' is kept.
KeepHash(hex) == hex

\* hex.replace(/^#/, '')
StripHash(hex) == IF hex # "" /\ Head(hex) = "#" THEN Tail(hex) ELSE hex

\* String.prototype.substring(from, to) with 0 <= from <= to (0-based, to excluded).
Substring(s, from, to) == SubSeq(s, Min2(from, Len(s)) + 1, Min2(to, Len(s)))

hexToRgb(hex) ==
  LET h1 == StripHash(hex)
      h2 == IF Len(h1) = 3 THEN DoubleChars(h1) ELSE h1
  IN Rgb(ParseInt(Substring(h2, 0, 2), 16),
         ParseInt(Substring(h2, 2, 4), 16),
         ParseInt(Substring(h2, 4, 6), 16))

\* Faulty variant of toHex: a single digit is not padded with 0.
toHexUnpadded(n) == NumberToString(n, 16)

toHex(n) ==
  LET hex == NumberToString(n, 16)
  IN IF Len(hex) = 1 THEN "0" \o hex ELSE hex

rgbToHex(rgb) == ToUpperCase("#" \o toHex(rgb.r) \o toHex(rgb.g) \o toHex(rgb.b))

\* Math.round arguments of rgbToHsl as exact fractions: h * 360, s * 100 and
\* l * 100, for numeric channels with max # min (the 1/255 scale cancels).
HueFraction(rgb) ==
  LET max == Max3(rgb.r, rgb.g, rgb.b)
      min == Min3(rgb.r, rgb.g, rgb.b)
      diff == max - min
  IN IF max = rgb.r
     THEN [num |-> 60 * (rgb.g - rgb.b) + (IF rgb.g < rgb.b THEN 360 * diff ELSE 0),
           den |-> diff]
     ELSE IF max = rgb.g
     THEN [num |-> 60 * (rgb.b - rgb.r) + 120 * diff, den |-> diff]
     ELSE [num |-> 60 * (rgb.r - rgb.g) + 240 * diff, den |-> diff]

SatFraction(rgb) ==
  LET max == Max3(rgb.r, rgb.g, rgb.b)
      min == Min3(rgb.r, rgb.g, rgb.b)
      diff == max - min
  IN IF max + min > 255
     THEN [num |-> 100 * diff, den |-> 510 - max - min]
     ELSE [num |-> 100 * diff, den |-> max + min]

\* Faulty variant of LightFraction: channels scaled by 256 instead of 255.
LightFractionOver256(rgb) ==
  [num |-> 100 * (Max3(rgb.r, rgb.g, rgb.b) + Min3(rgb.r, rgb.g, rgb.b)), den |-> 512]

LightFraction(rgb) ==
  [num |-> 100 * (Max3(rgb.r, rgb.g, rgb.b) + Min3(rgb.r, rgb.g, rgb.b)), den |-> 510]

RoundFraction(f) ==
  IF f.den < 0 THEN MathRound(-f.num, -f.den) ELSE MathRound(f.num, f.den)

HalfwayFraction(f) ==
  IF f.den < 0 THEN Halfway(-f.num, -f.den) ELSE Halfway(f.num, f.den)

HasNaN(rgb) == IsNaN(rgb.r) \/ IsNaN(rgb.g) \/ IsNaN(rgb.b)

\* With a NaN channel max, min, diff, s and l are NaN, diff !== 0 holds and no
\* case of the switch matches, so h stays 0.
rgbToHsl(rgb) ==
  IF HasNaN(rgb) THEN Hsl(0, NaN, NaN)
  ELSE IF Max3(rgb.r, rgb.g, rgb.b) = Min3(rgb.r, rgb.g, rgb.b)
  THEN Hsl(0, 0, RoundFraction(LightFraction(rgb)))
  ELSE Hsl(RoundFraction(HueFraction(rgb)),
           RoundFraction(SatFraction(rgb)),
           RoundFraction(LightFraction(rgb)))

\* q and p of hslToRgb in units of 1/10000.
QOf(hsl) ==
  IF hsl.l < 50 THEN hsl.l * (100 + hsl.s)
  ELSE 100 * hsl.l + 100 * hsl.s - hsl.l * hsl.s

POf(hsl) == 200 * hsl.l - QOf(hsl)

\* hue2rgb(p, q, t) in units of 1/600000, t given in degrees (t = deg / 360).
hue2rgb(p, q, deg) ==
  LET t1 == IF deg < 0 THEN deg + 360 ELSE deg
      t == IF t1 > 360 THEN t1 - 360 ELSE t1
  IN IF t < 60 THEN 60 * p + (q - p) * t
     ELSE IF t < 180 THEN 60 * q
     ELSE IF t < 240 THEN 60 * p + (q - p) * (240 - t)
     ELSE 60 * p

\* Faulty variant of ChannelFractions: the channels are scaled by 256.
ChannelFractionsBy256(hsl) ==
  IF hsl.s = 0
  THEN [c \in 1..3 |-> [num |-> 256 * hsl.l, den |-> 100]]
  ELSE [c \in 1..3 |->
          [num |-> 256 * hue2rgb(POf(hsl), QOf(hsl), hsl.h + 120 * (2 - c)),
           den |-> 600000]]

\* Math.round arguments of hslToRgb, r * 255, g * 255 and b * 255, as fractions.
ChannelFractions(hsl) ==
  IF hsl.s = 0
  THEN [c \in 1..3 |-> [num |-> 255 * hsl.l, den |-> 100]]
  ELSE [c \in 1..3 |->
          [num |-> 255 * hue2rgb(POf(hsl), QOf(hsl), hsl.h + 120 * (2 - c)),
           den |-> 600000]]

\* With s or l NaN every channel is NaN (s === 0 is false, q and p are NaN).
hslToRgb(hsl) ==
  IF IsNaN(hsl.s) \/ IsNaN(hsl.l) THEN Rgb(NaN, NaN, NaN)
  ELSE LET f == ChannelFractions(hsl)
       IN Rgb(RoundFraction(f[1]), RoundFraction(f[2]), RoundFraction(f[3]))

\* No Math.round argument of rgbToHsl(rgb) is exactly halfway.
\* (Nor is s infinite, which takes channels above 255 with max + min = 510.)
RgbExact(rgb) ==
  \/ HasNaN(rgb)
  \/ /\ ~HalfwayFraction(LightFraction(rgb))
     /\ \/ Max3(rgb.r, rgb.g, rgb.b) = Min3(rgb.r, rgb.g, rgb.b)
        \/ /\ SatFraction(rgb).den # 0
           /\ ~HalfwayFraction(HueFraction(rgb))
           /\ ~HalfwayFraction(SatFraction(rgb))

\* No Math.round argument of hslToRgb(hsl) is exactly halfway.
HslExact(hsl) ==
  \/ IsNaN(hsl.s) \/ IsNaN(hsl.l)
  \/ \A c \in 1..3 : ~HalfwayFraction(ChannelFractions(hsl)[c])

(***************************************************************************)
(* parseColor                                                              *)
(***************************************************************************)

\* The source's regular expressions carry no anchors: match() finds the
\* leftmost place where the pattern matches.  NoMatch stands for null.
NoMatch == <<>>

\* Index just after the run of decimal digits that starts at i.
DigitsEnd(s, i) == i + DigitRun(SubSeq(s, i, Len(s)), 10)

\* Index just after the run of white space that starts at i (\s*).
RECURSIVE SkipWs(_, _)
SkipWs(s, i) == IF i <= Len(s) /\ IsWs(CharAt(s, i)) THEN SkipWs(s, i + 1) ELSE i

\* The literal lit stands at index i of s, letters compared without case (/i).
LitAt(s, i, lit) ==
  /\ i + Len(lit) - 1 <= Len(s)
  /\ ToLowerCase(SubSeq(s, i, i + Len(lit) - 1)) = lit

\* /rgb\((\d+),\s*(\d+),\s*(\d+)\)/i tried at index i: the three groups, or NoMatch.
RgbMatchAt(s, i) ==
  LET a1 == i + 4
      a2 == DigitsEnd(s, a1)
      b1 == SkipWs(s, a2 + 1)
      b2 == DigitsEnd(s, b1)
      c1 == SkipWs(s, b2 + 1)
      c2 == DigitsEnd(s, c1)
  IN IF /\ LitAt(s, i, "rgb(")
        /\ a2 > a1 /\ CharAt(s, a2) = ","
        /\ b2 > b1 /\ CharAt(s, b2) = ","
        /\ c2 > c1 /\ CharAt(s, c2) = ")"
     THEN <<SubSeq(s, a1, a2 - 1), SubSeq(s, b1, b2 - 1), SubSeq(s, c1, c2 - 1)>>
     ELSE NoMatch

\* /hsl\((\d+),\s*(\d+)%,\s*(\d+)%\)/i tried at index i.
HslMatchAt(s, i) ==
  LET a1 == i + 4
      a2 == DigitsEnd(s, a1)
      b1 == SkipWs(s, a2 + 1)
      b2 == DigitsEnd(s, b1)
      c1 == SkipWs(s, b2 + 2)
      c2 == DigitsEnd(s, c1)
  IN IF /\ LitAt(s, i, "hsl(")
        /\ a2 > a1 /\ CharAt(s, a2) = ","
        /\ b2 > b1 /\ LitAt(s, b2, "%,")
        /\ c2 > c1 /\ LitAt(s, c2, "%)")
     THEN <<SubSeq(s, a1, a2 - 1), SubSeq(s, b1, b2 - 1), SubSeq(s, c1, c2 - 1)>>
     ELSE NoMatch

\* color.match(re): the match at the leftmost index, from i on, that has one.
RECURSIVE RgbMatchFrom(_, _)
RgbMatchFrom(s, i) ==
  IF i > Len(s) THEN NoMatch
  ELSE IF RgbMatchAt(s, i) # NoMatch THEN RgbMatchAt(s, i)
  ELSE RgbMatchFrom(s, i + 1)

RgbMatch(s) == RgbMatchFrom(s, 1)

RECURSIVE HslMatchFrom(_, _)
HslMatchFrom(s, i) ==
  IF i > Len(s) THEN NoMatch
  ELSE IF HslMatchAt(s, i) # NoMatch THEN HslMatchAt(s, i)
  ELSE HslMatchFrom(s, i + 1)

HslMatch(s) == HslMatchFrom(s, 1)

\* Faulty variant of IsBareHex: any six characters pass.
IsSixChars(s) == Len(s) = 6

\* /^[0-9A-F]{6}$/i.test(color)
IsBareHex(s) == Len(s) = 6 /\ \A i \in 1..6 : IsHexDigit(CharAt(s, i))

\* Faulty variant of parseHashColor: hex keeps the letter case of the input.
parseHashColorKeepCase(color) ==
  LET rgb == hexToRgb(color)
  IN ColorInfo(color, rgb, rgbToHsl(rgb))

\* The branch of parseColor for an input that starts with '#'.
parseHashColor(color) ==
  LET rgb == hexToRgb(color)
  IN ColorInfo(ToUpperCase(color), rgb, rgbToHsl(rgb))

\* parseColor(color): a ColorInfo, or InvalidFormat when it throws.
parseColor(input) ==
  LET color == Trim(input)
      rgbMatch == RgbMatch(color)
      hslMatch == HslMatch(color)
  IN IF color # "" /\ Head(color) = "#" THEN parseHashColor(color)
     ELSE IF rgbMatch # NoMatch
     THEN LET rgb == Rgb(ParseInt(rgbMatch[1], 10), ParseInt(rgbMatch[2], 10),
                         ParseInt(rgbMatch[3], 10))
          IN ColorInfo(rgbToHex(rgb), rgb, rgbToHsl(rgb))
     ELSE IF hslMatch # NoMatch
     THEN LET hsl == Hsl(ParseInt(hslMatch[1], 10), ParseInt(hslMatch[2], 10),
                         ParseInt(hslMatch[3], 10))
              rgb == hslToRgb(hsl)
          IN ColorInfo(rgbToHex(rgb), rgb, hsl)
     ELSE IF IsBareHex(color) THEN parseHashColor("#" \o color)
     ELSE InvalidFormat

(***************************************************************************)
(* Random colour and palettes                                              *)
(***************************************************************************)

\* generateRandomColor with the three Math.floor(Math.random() * 256) draws given.
generateRandomColor(r, g, b) ==
  LET rgb == Rgb(r, g, b)
  IN ColorInfo(rgbToHex(rgb), rgb, rgbToHsl(rgb))

\* { hex, rgb, hsl } derived from an hsl, as every palette function builds it.
FromHsl(hsl) ==
  LET rgb == hslToRgb(hsl)
  IN ColorInfo(rgbToHex(rgb), rgb, hsl)

\* { ...color.hsl, h: h }
WithHue(hsl, h) == [hsl EXCEPT !.h = h]

\* JavaScript's a % n for n > 0: the remainder takes the sign of a.
JsRem(a, n) == IF a >= 0 THEN a % n ELSE -((-a) % n)

\* Faulty variant of getComplementary: the hue is turned, rgb and hex are the base's.
getComplementaryKeepRgb(color) ==
  [color EXCEPT !.hsl = WithHue(color.hsl, JsRem(color.hsl.h + 180, HueTurn))]

\* Faulty variant of getComplementary: the turned hue is not wrapped.
getComplementaryUnwrapped(color) ==
  FromHsl(WithHue(color.hsl, color.hsl.h + 180))

getComplementary(color) ==
  FromHsl(WithHue(color.hsl, JsRem(color.hsl.h + 180, HueTurn)))

AnalogousAngles == <<-30, 0, 30>>

\* Faulty variant of getAnalogous: 360 is not added before the remainder.
getAnalogousNoLift(color) ==
  [i \in 1..Len(AnalogousAngles) |->
     FromHsl(WithHue(color.hsl, JsRem(color.hsl.h + AnalogousAngles[i], HueTurn)))]

getAnalogous(color) ==
  [i \in 1..Len(AnalogousAngles) |->
     FromHsl(WithHue(color.hsl,
                     JsRem(color.hsl.h + AnalogousAngles[i] + HueTurn, HueTurn)))]

TriadicAngles == <<0, 120, 240>>

\* Faulty variant of getTriadic: the colours stand 60 degrees apart.
getTriadicSixtyApart(color) ==
  [i \in 1..Len(TriadicAngles) |->
     FromHsl(WithHue(color.hsl, JsRem(color.hsl.h + 60 * (i - 1), HueTurn)))]

getTriadic(color) ==
  [i \in 1..Len(TriadicAngles) |->
     FromHsl(WithHue(color.hsl, JsRem(color.hsl.h + TriadicAngles[i], HueTurn)))]

TetradicAngles == <<0, 90, 180, 270>>

getTetradic(color) ==
  [i \in 1..Len(TetradicAngles) |->
     FromHsl(WithHue(color.hsl, JsRem(color.hsl.h + TetradicAngles[i], HueTurn)))]

\* Faulty variant of MonoLightness: Math.floor in place of Math.round.
MonoLightnessFloor(count, i) == (10 * (count - 1) + 80 * i) \div (count - 1)

\* Math.round(10 + step * i) with step = 80 / (count - 1), for count >= 2.
MonoLightness(count, i) == MathRound(10 * (count - 1) + 80 * i, count - 1)

\* Faulty variant of getMonochromatic: lightness is set, rgb and hex are the base's.
getMonochromaticKeepRgb(color, count) ==
  [i \in 1..count |-> [color EXCEPT !.hsl.l = MonoLightness(count, i - 1)]]

\* The loop runs for i = 0 .. count - 1 (TLA+ sequences count from 1).  With
\* count = 1 the step is Infinity and 10 + Infinity * 0 is NaN.
getMonochromatic(color, count) ==
  [i \in 1..count |->
     FromHsl([color.hsl EXCEPT !.l = IF count = 1 THEN NaN
                                      ELSE MonoLightness(count, i - 1)])]

DefaultCount == 5

(***************************************************************************)
(* getColorName                                                            *)
(***************************************************************************)

\* a < b in JavaScript: false when either side is NaN.
Less(a, b) == ~IsNaN(a) /\ ~IsNaN(b) /\ a < b

\* a <= b in JavaScript: false when either side is NaN.
LessEq(a, b) == ~IsNaN(a) /\ ~IsNaN(b) /\ a <= b

\* Faulty variant of AchromaticName: the bounds 20, 40, 60, 80 are inclusive.
AchromaticNameInclusive(l) ==
  IF LessEq(l, 20) THEN "Black"
  ELSE IF LessEq(l, 40) THEN "Dark Gray"
  ELSE IF LessEq(l, 60) THEN "Gray"
  ELSE IF LessEq(l, 80) THEN "Light Gray"
  ELSE "White"

\* The name of a colour with s < 10, by its lightness.
AchromaticName(l) ==
  IF Less(l, 20) THEN "Black"
  ELSE IF Less(l, 40) THEN "Dark Gray"
  ELSE IF Less(l, 60) THEN "Gray"
  ELSE IF Less(l, 80) THEN "Light Gray"
  ELSE "White"

hueNames ==
  << [max |-> 15, name |-> "Red"], [max |-> 45, name |-> "Orange"],
     [max |-> 70, name |-> "Yellow"], [max |-> 150, name |-> "Green"],
     [max |-> 210, name |-> "Cyan"], [max |-> 250, name |-> "Blue"],
     [max |-> 290, name |-> "Purple"], [max |-> 330, name |-> "Magenta"],
     [max |-> 360, name |-> "Red"] >>

\* Faulty variant of HueNameFrom: the upper bound of a band is exclusive.
RECURSIVE HueNameBelow(_, _)
HueNameBelow(h, k) ==
  IF k > Len(hueNames) THEN "Red"
  ELSE IF Less(h, hueNames[k].max) THEN hueNames[k].name
  ELSE HueNameBelow(h, k + 1)

\* hueNames.find(range => h <= range.max)?.name || 'Red', searching from index k.
RECURSIVE HueNameFrom(_, _)
HueNameFrom(h, k) ==
  IF k > Len(hueNames) THEN "Red"
  ELSE IF LessEq(h, hueNames[k].max) THEN hueNames[k].name
  ELSE HueNameFrom(h, k + 1)

\* The lightness / saturation modifier.
Prefix(s, l) ==
  IF Less(l, 30) THEN "Dark "
  ELSE IF Less(70, l) THEN "Light "
  ELSE IF Less(s, 40) THEN "Pale "
  ELSE IF Less(80, s) THEN "Vivid "
  ELSE ""

getColorName(color) ==
  IF Less(color.hsl.s, 10) THEN AchromaticName(color.hsl.l)
  ELSE Prefix(color.hsl.s, color.hsl.l) \o HueNameFrom(color.hsl.h, 1)

(***************************************************************************)
(* Inputs                                                                  *)
(***************************************************************************)

\* Longest chain of calls in which each call takes the previous result.
MaxChain == 2

\* Longest string of hex-like characters tried after the optional '#'.
MaxHexLen == 7

MaxHue == HueTurn - 1

MinCount == 3

MaxCount == 10

ChannelSamples == {0, 1, 17, 127, 128, 254, MaxChannel}

InRangeRgb(rgb) ==
  /\ rgb.r \in 0..MaxChannel /\ rgb.g \in 0..MaxChannel /\ rgb.b \in 0..MaxChannel

InRangeHsl(hsl) ==
  /\ hsl.h \in 0..MaxHue /\ hsl.s \in 0..MaxPercent /\ hsl.l \in 0..MaxPercent

\* A grid of channel values, every channel value once in every position, and
\* the reds with a small blue component.
RgbGrid ==
  {Rgb(r, g, b) : r \in ChannelSamples, g \in ChannelSamples, b \in ChannelSamples}
  \cup {Rgb(v, MaxChannel - v, (7 * v) % (MaxChannel + 1)) : v \in 0..MaxChannel}
  \cup {Rgb(MaxChannel, 0, b) : b \in 1..4}

\* Triples with a channel above 255, as rgb(300, 0, 0) parses to.
RgbOutOfRange == {Rgb(256, 0, 0), Rgb(300, 0, 0), Rgb(0, 999, 0), Rgb(0, 0, 256)}

RgbInputs == RgbGrid \cup RgbOutOfRange

RgbSampleGrid ==
  {Rgb(r, g, b) : r \in ChannelSamples, g \in ChannelSamples, b \in ChannelSamples}

HueSamples == {0, 1, 29, 30, 59, 60, 61, 120, 179, 180, 181, 240, 300, 330, MaxHue}

SatSamples == {0, 1, 9, 10, 50, 99, MaxPercent}

LightSamples == {0, 1, 10, 29, 50, 51, 71, 99, MaxPercent}

HslGrid == {Hsl(h, s, l) : h \in HueSamples, s \in SatSamples, l \in LightSamples}

\* Triples outside the data model's ranges, as hsl(400, 50%, 50%) parses to.
HslOutOfRange == {Hsl(400, 50, 50), Hsl(0, 200, 50), Hsl(360, 100, 50), Hsl(120, 50, 150)}

HslInputs == HslGrid \cup HslOutOfRange

Hex2(n, digits) ==
  SubSeq(digits, (n \div 16) + 1, (n \div 16) + 1) \o SubSeq(digits, (n % 16) + 1, (n % 16) + 1)

\* The six hex digits RRGGBB of a triple in [0,255]^3.
SpellHex(rgb, digits) == Hex2(rgb.r, digits) \o Hex2(rgb.g, digits) \o Hex2(rgb.b, digits)

Dec(n) == NatToString(n, 10)

\* rgb(r,g,b) with sep after each comma.
SpellRgb(rgb, sep) ==
  "rgb(" \o Dec(rgb.r) \o "," \o sep \o Dec(rgb.g) \o "," \o sep \o Dec(rgb.b) \o ")"

\* hsl(h,s%,l%) with sep after each comma.
SpellHsl(hsl, sep) ==
  "hsl(" \o Dec(hsl.h) \o "," \o sep \o Dec(hsl.s) \o "%," \o sep \o Dec(hsl.l) \o "%)"

HexAlphabet == {"a", "G"}

RECURSIVE Words(_)
Words(n) ==
  IF n = 0 THEN {""} ELSE {w \o c : w \in Words(n - 1), c \in HexAlphabet}

\* Every string of at most MaxHexLen characters over a hex digit and a non-digit.
HexWords == UNION {Words(n) : n \in 0..MaxHexLen}

ShorthandDigits == {"0", "1", "9", "a", "F"}

HexShorthand == {x \o y \o z : x \in ShorthandDigits, y \in ShorthandDigits, z \in ShorthandDigits}

\* RRGGBB with RR and BB in lower case and GG in upper case.
SpellHexMixed(rgb) ==
  Hex2(rgb.r, LowerDigits) \o Hex2(rgb.g, UpperDigits) \o Hex2(rgb.b, LowerDigits)

HexSpellings ==
  {SpellHex(rgb, UpperDigits) : rgb \in RgbGrid}
  \cup {SpellHex(rgb, LowerDigits) : rgb \in RgbSampleGrid}
  \cup {SpellHexMixed(rgb) : rgb \in RgbSampleGrid}

HexBodies ==
  HexSpellings \cup HexShorthand \cup HexWords
  \cup {"12345", "1234567", "GG0000", "fF00Aa", "0x1234", "-1-2-3", " 1 2 3", "12 456", "F0", "f00"}

\* Arguments of hexToRgb: with and without the leading '#'.
HexInputs == HexBodies \cup {"#" \o h : h \in HexBodies}

OtherTexts ==
  { "", " ", "notacolor", "rgb(-1, 0, 0)", "rgb(1, 2)", "rgb(1,2,3", "rgb(1 ,2,3)",
    "rgb( 1,2,3)", "hsl(0, 50, 50)", "hsl(0,100%,50%", "hsl(-10, 50%, 50%)",
    "red", "xrgb(1,2,3)y", "rgb(1,2,3) and more", "a hsl(10, 20%, 30%) b",
    "  #FF0000  ", " ff0000 ", "RGB(255, 0, 0)", "Hsl(0,  100%,  50%)",
    "rgb(1,2,3)hsl(10, 20%, 30%)", "hsl(10, 20%, 30%)rgb(1,2,3)",
    "#rgb(1,2,3)", "rgb(007, 08, 9)" }

\* Arguments of parseColor.
ColorInputs ==
  HexInputs
  \cup {SpellRgb(rgb, " ") : rgb \in RgbInputs}
  \cup {SpellRgb(rgb, "") : rgb \in RgbOutOfRange}
  \cup {ToUpperCase(SpellRgb(rgb, " ")) : rgb \in RgbSampleGrid}
  \cup {SpellHsl(hsl, " ") : hsl \in HslInputs}
  \cup {SpellHsl(hsl, "") : hsl \in HslOutOfRange}
  \cup OtherTexts

Counts == MinCount..MaxCount

\* Hues, saturations and lightnesses on both sides of every bound of getColorName.
NameHues ==
  {0, 15, 16, 45, 46, 70, 71, 150, 151, 210, 211, 250, 251, 290, 291, 330, 331,
   MaxHue, HueTurn}

NameSats == {0, 9, 10, 39, 40, 41, 80, 81, MaxPercent}

NameLights == {0, 19, 20, 29, 30, 39, 40, 50, 59, 60, 70, 71, 79, 80, MaxPercent}

\* Arguments of getColorName: ColorInfo objects with those hsl values.  (Only
\* the hsl of the argument is read.)
NameInputs ==
  {FromHsl(Hsl(h, s, l)) : h \in NameHues, s \in NameSats, l \in NameLights}

(***************************************************************************)
(* State: the chain of calls made so far, each with its argument and       *)
(* result.  A caller starts a chain with an input of its own and may pass  *)
(* a result on to a function that takes a value of that kind.              *)
(***************************************************************************)

Last == hist[Len(hist)]

CanCall == Len(hist) < MaxChain

Record(op, arg, ret) ==
  /\ hist' = Append(hist, [op |-> op, arg |-> arg, ret |-> ret])
  /\ UNCHANGED <<db, ui>>

LastFrom(ops) == hist # <<>> /\ Last.op \in ops

\* Faulty variant of BaseAfter: the turned hue is assigned to color.hsl.h in place.
BaseAfterHueAssigned(color) ==
  [color EXCEPT !.hsl.h = JsRem(color.hsl.h + 180, HueTurn)]

\* The ColorInfo object passed to a palette function, as it is after the call:
\* the functions read color.hsl, build new objects with the spread syntax and
\* assign to no field of color.
BaseAfter(color) == color

\* A palette call, recorded with the state its base object is left in.
RecordPalette(op, arg, ret, after) ==
  /\ hist' = Append(hist, [op |-> op, arg |-> arg, ret |-> ret, after |-> after])
  /\ UNCHANGED <<db, ui>>

HexArgs ==
  IF hist = <<>> THEN HexInputs
  ELSE IF LastFrom({"rgbToHex"}) THEN {Last.ret} ELSE {}

RgbArgs ==
  IF hist = <<>> THEN RgbInputs
  ELSE IF LastFrom({"hexToRgb", "hslToRgb"}) THEN {Last.ret} ELSE {}

HslArgs ==
  IF hist = <<>> THEN HslInputs
  ELSE IF LastFrom({"rgbToHsl"}) THEN {Last.ret} ELSE {}

\* The ColorInfo a palette function is given: one a producer returned.
ColorArgs ==
  IF LastFrom({"parseColor", "generateRandomColor", "getComplementary"})
  THEN {Last.ret} \ {InvalidFormat}
  ELSE {}

\* The ColorInfo getColorName is given: one of the caller's, or one a producer returned.
NameArgs == IF hist = <<>> THEN NameInputs ELSE ColorArgs

\* Every colour of a palette was converted without a halfway value.
ExactColors(colors) == \A i \in DOMAIN colors : HslExact(colors[i].hsl)

\* A result of parseColor that was computed without a halfway value.
ExactParse(c) == c = InvalidFormat \/ (RgbExact(c.rgb) /\ HslExact(c.hsl))

\* null
Null == [type |-> "null"]

\* The widgets with a save button, and their state when they are mounted:
\* useState(null), useState(false), useState(false).
Widgets == {"ColorSwatch", "PropertyCard"}

Mounted ==
  [ColorSwatch |-> [copiedValue |-> Null, isSaving |-> FALSE, isSaved |-> FALSE],
   PropertyCard |-> [isSaving |-> FALSE, isSaved |-> FALSE],
   calls |-> [w \in Widgets |-> 0],
   saveTimers |-> [w \in Widgets |-> 0],
   copies |-> 0,
   clipboard |-> <<>>,
   copyTimers |-> <<>>,
   copiedBy |-> 0]

Init == hist = <<>> /\ db = {} /\ ui = Mounted

HexToRgb ==
  /\ CanCall
  /\ \E hex \in HexArgs : Record("hexToRgb", hex, hexToRgb(hex))

RgbToHex ==
  /\ CanCall
  /\ \E rgb \in RgbArgs : Record("rgbToHex", rgb, rgbToHex(rgb))

RgbToHsl ==
  /\ CanCall
  /\ \E rgb \in {x \in RgbArgs : RgbExact(x)} : Record("rgbToHsl", rgb, rgbToHsl(rgb))

HslToRgb ==
  /\ CanCall
  /\ \E hsl \in {x \in HslArgs : HslExact(x)} : Record("hslToRgb", hsl, hslToRgb(hsl))

ParseColor ==
  /\ hist = <<>>
  /\ \E input \in ColorInputs :
       \E ret \in {c \in {parseColor(input)} : ExactParse(c)} :
         Record("parseColor", input, ret)

GenerateRandomColor ==
  /\ hist = <<>>
  /\ \E rgb \in {x \in RgbGrid : RgbExact(x)} :
       Record("generateRandomColor", rgb, generateRandomColor(rgb.r, rgb.g, rgb.b))

GetComplementary ==
  /\ CanCall
  /\ \E color \in ColorArgs :
       \E ret \in {c \in {getComplementary(color)} : HslExact(c.hsl)} :
         RecordPalette("getComplementary", color, ret, BaseAfter(color))

GetAnalogous ==
  /\ CanCall
  /\ \E color \in ColorArgs :
       \E ret \in {cs \in {getAnalogous(color)} : ExactColors(cs)} :
         RecordPalette("getAnalogous", color, ret, BaseAfter(color))

GetTriadic ==
  /\ CanCall
  /\ \E color \in ColorArgs :
       \E ret \in {cs \in {getTriadic(color)} : ExactColors(cs)} :
         RecordPalette("getTriadic", color, ret, BaseAfter(color))

GetTetradic ==
  /\ CanCall
  /\ \E color \in ColorArgs :
       \E ret \in {cs \in {getTetradic(color)} : ExactColors(cs)} :
         RecordPalette("getTetradic", color, ret, BaseAfter(color))

GetMonochromatic ==
  /\ CanCall
  /\ \E color \in ColorArgs, count \in Counts :
       \E ret \in {cs \in {getMonochromatic(color, count)} : ExactColors(cs)} :
         RecordPalette("getMonochromatic", [color |-> color, count |-> count], ret,
                       BaseAfter(color))

GetColorName ==
  /\ CanCall
  /\ \E color \in NameArgs : Record("getColorName", color, getColorName(color))

\* The caller is done with the results and starts afresh.
Return == hist # <<>> /\ hist' = <<>> /\ UNCHANGED <<db, ui>>

Next ==
  \/ HexToRgb
  \/ RgbToHex
  \/ RgbToHsl
  \/ HslToRgb
  \/ ParseColor
  \/ GenerateRandomColor
  \/ GetComplementary
  \/ GetAnalogous
  \/ GetTriadic
  \/ GetTetradic
  \/ GetMonochromatic
  \/ GetColorName
  \/ Return

Spec == Init /\ [][Next]_vars

(***************************************************************************)
(* Tools of backend/src/config/constants.ts                                *)
(*                                                                         *)
(* A tool takes an input object of type unknown, validates it with its zod *)
(* schema, calls the colour functions above and returns a result object;   *)
(* whatever is thrown inside its try block is turned into an error result  *)
(* by its catch block.  A thrown Error is the record [error |-> message],  *)
(* as InvalidFormat is.  Besides the result, each tool is modelled with    *)
(* the calls it makes to parseColor, to the palette functions and to       *)
(* query, in the order it makes them.                                      *)
(***************************************************************************)

\* Values of type unknown found in the fields of an input object.
Undefined == [type |-> "undefined"]

Str(s) == [type |-> "string", val |-> s]

Num(n) == [type |-> "number", val |-> n, frac |-> 0]

\* The number n + 1/2.
NumAndHalf(n) == [type |-> "number", val |-> n, frac |-> 1]

\* A repeated query parameter, which Express parses to an array.
Arr(items) == [type |-> "array", val |-> items]

\* JavaScript truthiness of such a value.
Truthy(v) ==
  IF v.type = "string" THEN v.val # ""
  ELSE IF v.type = "number" THEN v.val # 0 \/ v.frac # 0
  ELSE v.type = "array"

Threw(x) == "error" \in DOMAIN x

\* The ZodError a schema throws.  zod is a dependency of the repository; of
\* the message it builds only the path of the rejected field is kept.
ZodError(path) == [error |-> "ZodError at " \o path]

\* z.string().min(1, ...)
IsRequiredString(v) == v.type = "string" /\ Len(v.val) >= 1

\* z.string().optional()
IsOptionalString(v) == v.type \in {"undefined", "string"}

\* z.enum(values)
IsEnum(v, values) == v.type = "string" /\ v.val \in values

\* Faulty variant of IsIntBetween: the lower bound is not checked.
IsIntAtMost(v, lo, hi) == v.type = "number" /\ v.frac = 0 /\ v.val <= hi

\* z.number().int().min(lo).max(hi)
IsIntBetween(v, lo, hi) ==
  v.type = "number" /\ v.frac = 0 /\ v.val >= lo /\ v.val <= hi

\* GetColorInfoSchema.parse(input)
GetColorInfoSchema(input) ==
  IF ~IsRequiredString(input.color) THEN ZodError("color")
  ELSE [color |-> input.color.val]

ConvertFormats == {"hex", "rgb", "hsl", "all"}

\* ConvertColorSchema.parse(input): an absent `to` becomes 'all'.
ConvertColorSchema(input) ==
  IF ~IsRequiredString(input.color) THEN ZodError("color")
  ELSE IF input.to = Undefined THEN [color |-> input.color.val, to |-> "all"]
  ELSE IF ~IsEnum(input.to, ConvertFormats) THEN ZodError("to")
  ELSE [color |-> input.color.val, to |-> input.to.val]

PaletteTypes == {"complementary", "analogous", "triadic", "monochromatic", "tetradic"}

\* GeneratePaletteSchema.parse(input): count stays undefined when absent.
GeneratePaletteSchema(input) ==
  IF ~IsRequiredString(input.baseColor) THEN ZodError("baseColor")
  ELSE IF ~IsEnum(input.type, PaletteTypes) THEN ZodError("type")
  ELSE IF input.count # Undefined /\ ~IsIntBetween(input.count, MinCount, MaxCount)
  THEN ZodError("count")
  ELSE [baseColor |-> input.baseColor.val, type |-> input.type.val, count |-> input.count]

\* SaveFavoriteColorSchema.parse(input)
SaveFavoriteColorSchema(input) ==
  IF ~IsRequiredString(input.color) THEN ZodError("color")
  ELSE IF ~IsOptionalString(input.name) THEN ZodError("name")
  ELSE [color |-> input.color.val, name |-> input.name]

\* { ...c, name }
WithName(c, name) == [hex |-> c.hex, rgb |-> c.rgb, hsl |-> c.hsl, name |-> name]

\* The template literal `${n}` of a number.
Shown(n) == NumberToString(n, 10)

RgbText(rgb) ==
  "rgb(" \o Shown(rgb.r) \o ", " \o Shown(rgb.g) \o ", " \o Shown(rgb.b) \o ")"

HslText(hsl) ==
  "hsl(" \o Shown(hsl.h) \o ", " \o Shown(hsl.s) \o "%, " \o Shown(hsl.l) \o "%)"

\* The _meta of a result when COLOR_WIDGET_URL is set, undefined otherwise.
WidgetMeta(hasWidget, invoking, invoked) ==
  IF hasWidget
  THEN [outputTemplate |-> "ui://widget/color-display", widgetAccessible |-> TRUE,
        resultCanProduceWidget |-> TRUE, invoking |-> invoking, invoked |-> invoked]
  ELSE Undefined

TextContent(text) == <<[type |-> "text", text |-> text]>>

\* What the try block of a tool ends with (a result or a thrown Error), the
\* calls it made and the table it leaves.
Outcome(out, calls, table) == [out |-> out, calls |-> calls, db |-> table]

Call(op, arg) == [op |-> op, arg |-> arg]

\* Faulty variant of Catch: the message of the Error is not put in the text.
CatchUnknownError(out, failed) ==
  IF ~Threw(out) THEN out
  ELSE [content |-> TextContent(failed \o ": Unknown error"),
        structuredContent |-> [success |-> FALSE], isError |-> TRUE]

\* The catch block of the tools: every Error becomes an error result.
Catch(out, failed) ==
  IF ~Threw(out) THEN out
  ELSE [content |-> TextContent(failed \o ": " \o out.error),
        structuredContent |-> [success |-> FALSE], isError |-> TRUE]

\* The try block of a tool, stage by stage: ...Schema.parse(input), then
\* parseColor on the validated text, then the rest.  Each stage is given what
\* the stages before it returned; a stage that throws ends the block.

\* The first call every tool makes after validation.
ParseCall(text) == <<Call("parseColor", text)>>

\* getColorInfo: the result built from colorInfo and its name.
getColorInfoResult(colorInfo, colorName, hasWidget) ==
  [content |->
     TextContent(IF hasWidget THEN colorName \o " - " \o colorInfo.hex
                 ELSE "Color: " \o colorName \o "\nHEX: " \o colorInfo.hex
                      \o "\nRGB: " \o RgbText(colorInfo.rgb)
                      \o "\nHSL: " \o HslText(colorInfo.hsl)),
   structuredContent |->
     [success |-> TRUE, colors |-> <<WithName(colorInfo, colorName)>>,
      paletteType |-> "single"],
   meta |-> WidgetMeta(hasWidget, "Getting color info...", "Color info retrieved"),
   isError |-> FALSE]

getColorInfoParsed(validatedInput, colorInfo, hasWidget) ==
  IF Threw(colorInfo) THEN Outcome(colorInfo, ParseCall(validatedInput.color), db)
  ELSE Outcome(getColorInfoResult(colorInfo, getColorName(colorInfo), hasWidget),
               ParseCall(validatedInput.color), db)

getColorInfoValidated(validatedInput, hasWidget) ==
  IF Threw(validatedInput) THEN Outcome(validatedInput, <<>>, db)
  ELSE getColorInfoParsed(validatedInput, parseColor(validatedInput.color), hasWidget)

getColorInfoTry(input, hasWidget) ==
  getColorInfoValidated(GetColorInfoSchema(input), hasWidget)

\* convertColor: the result built from colorInfo.
convertColorResult(to, colorInfo) ==
  [content |->
     TextContent(IF to = "hex" THEN "HEX: " \o colorInfo.hex
                 ELSE IF to = "rgb" THEN "RGB: " \o RgbText(colorInfo.rgb)
                 ELSE IF to = "hsl" THEN "HSL: " \o HslText(colorInfo.hsl)
                 ELSE "HEX: " \o colorInfo.hex \o "\nRGB: " \o RgbText(colorInfo.rgb)
                      \o "\nHSL: " \o HslText(colorInfo.hsl)),
   structuredContent |->
     [success |-> TRUE, color |-> WithName(colorInfo, getColorName(colorInfo)),
      format |-> to],
   isError |-> FALSE]

convertColorParsed(validatedInput, colorInfo) ==
  IF Threw(colorInfo) THEN Outcome(colorInfo, ParseCall(validatedInput.color), db)
  ELSE Outcome(convertColorResult(validatedInput.to, colorInfo),
               ParseCall(validatedInput.color), db)

convertColorValidated(validatedInput) ==
  IF Threw(validatedInput) THEN Outcome(validatedInput, <<>>, db)
  ELSE convertColorParsed(validatedInput, parseColor(validatedInput.color))

convertColorTry(input) == convertColorValidated(ConvertColorSchema(input))

\* colors.map(f).join('\n')
RECURSIVE JoinLines(_)
JoinLines(lines) ==
  IF lines = <<>> THEN ""
  ELSE IF Len(lines) = 1 THEN lines[1]
  ELSE lines[1] \o "\n" \o JoinLines(Tail(lines))

\* validatedInput.count || 5, on the count GeneratePaletteSchema let through.
CountOrDefault(count) == IF Truthy(count) THEN count.val ELSE DefaultCount

\* Faulty variant of PaletteOf: a complementary palette without its base color.
PaletteOfComplementOnly(type, baseColor, count) ==
  IF type = "complementary" THEN <<getComplementary(baseColor)>>
  ELSE IF type = "analogous" THEN getAnalogous(baseColor)
  ELSE IF type = "triadic" THEN getTriadic(baseColor)
  ELSE IF type = "monochromatic" THEN getMonochromatic(baseColor, count)
  ELSE getTetradic(baseColor)

\* generatePalette: the colors its switch assigns for one of the five types.
PaletteOf(type, baseColor, count) ==
  IF type = "complementary" THEN <<baseColor, getComplementary(baseColor)>>
  ELSE IF type = "analogous" THEN getAnalogous(baseColor)
  ELSE IF type = "triadic" THEN getTriadic(baseColor)
  ELSE IF type = "monochromatic" THEN getMonochromatic(baseColor, count)
  ELSE getTetradic(baseColor)

\* The call the switch makes to get them.
PaletteCall(type, baseColor, count) ==
  IF type = "complementary" THEN Call("getComplementary", baseColor)
  ELSE IF type = "analogous" THEN Call("getAnalogous", baseColor)
  ELSE IF type = "triadic" THEN Call("getTriadic", baseColor)
  ELSE IF type = "monochromatic"
  THEN Call("getMonochromatic", [color |-> baseColor, count |-> count])
  ELSE Call("getTetradic", baseColor)

\* generatePalette: the result built from colors.
generatePaletteResult(type, colors, hasWidget) ==
  [content |->
     TextContent(IF hasWidget
                 THEN type \o " palette with " \o Shown(Len(colors)) \o " colors"
                 ELSE type \o " color palette:\n"
                      \o JoinLines([i \in DOMAIN colors |->
                                     colors[i].hex \o " - " \o getColorName(colors[i])])),
   structuredContent |->
     [success |-> TRUE,
      colors |-> [i \in DOMAIN colors |-> WithName(colors[i], getColorName(colors[i]))],
      paletteType |-> type],
   meta |-> WidgetMeta(hasWidget, "Generating palette...", "Palette generated"),
   isError |-> FALSE]

\* The switch and what follows it; its default branch throws.
generatePaletteSwitch(type, baseColor, count, parsed, hasWidget) ==
  IF type \notin PaletteTypes THEN Outcome([error |-> "Invalid palette type"], parsed, db)
  ELSE Outcome(generatePaletteResult(type, PaletteOf(type, baseColor, count), hasWidget),
               Append(parsed, PaletteCall(type, baseColor, count)), db)

generatePaletteParsed(validatedInput, baseColor, hasWidget) ==
  IF Threw(baseColor) THEN Outcome(baseColor, ParseCall(validatedInput.baseColor), db)
  ELSE generatePaletteSwitch(validatedInput.type, baseColor,
                             CountOrDefault(validatedInput.count),
                             ParseCall(validatedInput.baseColor), hasWidget)

generatePaletteValidated(validatedInput, hasWidget) ==
  IF Threw(validatedInput) THEN Outcome(validatedInput, <<>>, db)
  ELSE generatePaletteParsed(validatedInput, parseColor(validatedInput.baseColor), hasWidget)

generatePaletteTry(input, hasWidget) ==
  generatePaletteValidated(GeneratePaletteSchema(input), hasWidget)

(***************************************************************************)
(* The favorite_colors table of backend/src/db/schema.sql                  *)
(*                                                                         *)
(* db is the set of its rows.  The id column, a serial number no tool      *)
(* reads, is left out.  NOW() is a time later than every time in the       *)
(* table.                                                                  *)
(***************************************************************************)

\* The rows of the users table: the ids user_id may reference.
Users == {1, 2}

RECURSIVE MaxOf(_)
MaxOf(S) ==
  IF S = {} THEN 0
  ELSE LET x == CHOOSE y \in S : TRUE IN Max2(x, MaxOf(S \ {x}))

Now(table) == 1 + MaxOf({r.created_at : r \in table} \cup {r.updated_at : r \in table})

\* An INTEGER column with CHECK (x BETWEEN lo AND hi) accepts the parameter.
ColumnAccepts(x, lo, hi) == ~IsNaN(x) /\ x >= lo /\ x <= hi

\* The Error the INSERT is rejected with, or Undefined when the table takes it.
InsertError(p) ==
  IF \E x \in {p.rgb_r, p.rgb_g, p.rgb_b, p.hsl_h, p.hsl_s, p.hsl_l} : IsNaN(x)
  THEN [error |-> "invalid input syntax for type integer: \"NaN\""]
  ELSE IF p.user_id \notin Users
  THEN [error |-> "insert or update on table \"favorite_colors\" violates foreign key constraint"]
  ELSE IF ~(/\ ColumnAccepts(p.rgb_r, 0, MaxChannel)
            /\ ColumnAccepts(p.rgb_g, 0, MaxChannel)
            /\ ColumnAccepts(p.rgb_b, 0, MaxChannel)
            /\ ColumnAccepts(p.hsl_h, 0, HueTurn)
            /\ ColumnAccepts(p.hsl_s, 0, MaxPercent)
            /\ ColumnAccepts(p.hsl_l, 0, MaxPercent))
  THEN [error |-> "new row for relation \"favorite_colors\" violates check constraint"]
  ELSE Undefined

\* Faulty variant of Upsert: on a conflict the old row is replaced by a new one.
UpsertReplacingRow(table, p) ==
  {r \in table : ~(r.user_id = p.user_id /\ r.hex = p.hex)}
  \cup {[user_id |-> p.user_id, hex |-> p.hex,
          rgb_r |-> p.rgb_r, rgb_g |-> p.rgb_g, rgb_b |-> p.rgb_b,
          hsl_h |-> p.hsl_h, hsl_s |-> p.hsl_s, hsl_l |-> p.hsl_l,
          name |-> p.name, created_at |-> Now(table), updated_at |-> Now(table)]}

\* INSERT ... ON CONFLICT (user_id, hex) DO UPDATE SET name = $9, updated_at = NOW()
Upsert(table, p) ==
  LET now == Now(table)
      old == {r \in table : r.user_id = p.user_id /\ r.hex = p.hex}
  IN IF old = {}
     THEN table \cup {[user_id |-> p.user_id, hex |-> p.hex,
                       rgb_r |-> p.rgb_r, rgb_g |-> p.rgb_g, rgb_b |-> p.rgb_b,
                       hsl_h |-> p.hsl_h, hsl_s |-> p.hsl_s, hsl_l |-> p.hsl_l,
                       name |-> p.name, created_at |-> now, updated_at |-> now]}
     ELSE (table \ old) \cup {[r EXCEPT !.name = p.name, !.updated_at = now] : r \in old}

\* saveFavoriteColor: the parameters of its query.
QueryParams(userId, colorInfo, colorName) ==
  [user_id |-> userId.val, hex |-> colorInfo.hex,
   rgb_r |-> colorInfo.rgb.r, rgb_g |-> colorInfo.rgb.g, rgb_b |-> colorInfo.rgb.b,
   hsl_h |-> colorInfo.hsl.h, hsl_s |-> colorInfo.hsl.s, hsl_l |-> colorInfo.hsl.l,
   name |-> colorName]

\* await query(...) and what follows it; a rejected query throws.
saveFavoriteColorQuery(colorInfo, colorName, params, rejected, parsed) ==
  IF rejected # Undefined THEN Outcome(rejected, Append(parsed, Call("query", params)), db)
  ELSE Outcome([content |-> TextContent("Saved " \o colorName \o " (" \o colorInfo.hex
                                        \o ") to favorites"),
                structuredContent |->
                  [success |-> TRUE, color |-> colorInfo, name |-> colorName],
                isError |-> FALSE],
               Append(parsed, Call("query", params)), Upsert(db, params))

saveFavoriteColorNamed(colorInfo, colorName, params, parsed) ==
  saveFavoriteColorQuery(colorInfo, colorName, params, InsertError(params), parsed)

\* validatedInput.name || getColorName(colorInfo)
NameOrDefault(name, colorInfo) ==
  IF Truthy(name) THEN name.val ELSE getColorName(colorInfo)

saveFavoriteColorColored(colorInfo, colorName, userId, parsed) ==
  saveFavoriteColorNamed(colorInfo, colorName, QueryParams(userId, colorInfo, colorName),
                         parsed)

saveFavoriteColorParsed(validatedInput, colorInfo, userId) ==
  IF Threw(colorInfo) THEN Outcome(colorInfo, ParseCall(validatedInput.color), db)
  ELSE saveFavoriteColorColored(colorInfo, NameOrDefault(validatedInput.name, colorInfo),
                                userId, ParseCall(validatedInput.color))

saveFavoriteColorValidated(validatedInput, userId) ==
  IF Threw(validatedInput) THEN Outcome(validatedInput, <<>>, db)
  ELSE saveFavoriteColorParsed(validatedInput, parseColor(validatedInput.color), userId)

saveFavoriteColorTry(input, userId) ==
  IF ~Truthy(userId)
  THEN Outcome([error |-> "User authentication required to save favorite colors"], <<>>, db)
  ELSE saveFavoriteColorValidated(SaveFavoriteColorSchema(input), userId)

\* A tool: its try block, then its catch block on what the try block threw.
Caught(run, failed) == [run EXCEPT !.out = Catch(run.out, failed)]

getColorInfo(input, hasWidget) ==
  Caught(getColorInfoTry(input, hasWidget), "Failed to get color info")

convertColor(input) == Caught(convertColorTry(input), "Failed to convert color")

generatePalette(input, hasWidget) ==
  Caught(generatePaletteTry(input, hasWidget), "Failed to generate palette")

saveFavoriteColor(input, userId) ==
  Caught(saveFavoriteColorTry(input, userId), "Failed to save favorite color")

\* Faulty variant of SelectFavorites: the rows of every user are selected.
SelectEveryFavorite(table, userId) == table

\* SELECT ... FROM favorite_colors WHERE user_id = $1
SelectFavorites(table, userId) == {r \in table : r.user_id = userId}

\* ORDER BY created_at DESC, on rows saved at different times.
RECURSIVE OrderByCreatedDesc(_)
OrderByCreatedDesc(rows) ==
  IF rows = {} THEN <<>>
  ELSE LET newest == CHOOSE r \in rows : \A q \in rows : q.created_at <= r.created_at
       IN <<newest>> \o OrderByCreatedDesc(rows \ {newest})

\* result.rows.map((row) => ({ hex, rgb, hsl, name }))
FavoriteOf(row) ==
  [hex |-> row.hex, rgb |-> Rgb(row.rgb_r, row.rgb_g, row.rgb_b),
   hsl |-> Hsl(row.hsl_h, row.hsl_s, row.hsl_l), name |-> row.name]

\* getFavorites: the result built from the colors of the rows.
getFavoritesResult(colors, hasWidget) ==
  [content |->
     TextContent(IF colors = <<>> THEN "No favorite colors saved yet"
                 ELSE IF hasWidget
                 THEN "Found " \o Shown(Len(colors)) \o " favorite colors"
                 ELSE "Your favorite colors:\n"
                      \o JoinLines([i \in DOMAIN colors |->
                                     colors[i].hex \o " - " \o colors[i].name])),
   structuredContent |-> [success |-> TRUE, colors |-> colors, paletteType |-> "favorites"],
   meta |-> WidgetMeta(hasWidget /\ colors # <<>>, "Loading favorites...",
                       "Favorites loaded"),
   isError |-> FALSE]

getFavoritesQuery(rows, userId, hasWidget) ==
  Outcome(getFavoritesResult([i \in DOMAIN rows |-> FavoriteOf(rows[i])], hasWidget),
          <<Call("query", [user_id |-> userId.val])>>, db)

getFavoritesTry(userId, hasWidget) ==
  IF ~Truthy(userId)
  THEN Outcome([error |-> "User authentication required to get favorite colors"], <<>>, db)
  ELSE getFavoritesQuery(OrderByCreatedDesc(SelectFavorites(db, userId.val)), userId,
                         hasWidget)

getFavorites(userId, hasWidget) ==
  Caught(getFavoritesTry(userId, hasWidget), "Failed to get favorites")

(***************************************************************************)
(* The tools as a state machine.  A tool call is recorded in hist with its  *)
(* input, the table before it, its result and the calls it made, until the *)
(* caller has taken the result (Return); the table stays.                  *)
(***************************************************************************)

MaxSaves == 2

\* Colour texts given to the tools: spellings of one colour, colours whose
\* palettes differ, numbers outside the ranges, text that is no colour.
ToolColors ==
  {"#FF0000", "#f00", "ff0000", "rgb(255, 0, 0)", "hsl(210, 50%, 29%)",
   "rgb(12, 200, 99)", "rgb(300, 0, 0)", "hsl(400, 50%, 50%)", "hsl(0, 200%, 50%)",
   "#GG0000", "notacolor", "rgb(1,2,3) and more"}

ColorValues == {Str(c) : c \in ToolColors} \cup {Str(""), Undefined, Num(5)}

ToValues == {Str(to) : to \in ConvertFormats} \cup {Str("cmyk"), Undefined}

TypeValues == {Str(type) : type \in PaletteTypes} \cup {Str("rainbow"), Undefined}

CountValues ==
  {Undefined, Str("5"), NumAndHalf(MinCount)}
  \cup {Num(n) : n \in {-1, 0, 1, MinCount - 1, MinCount, MinCount + 1, DefaultCount,
                        MaxCount, MaxCount + 1}}

\* Every type with and without a count, every count with two of the types.
PaletteInputs ==
  {[baseColor |-> c, type |-> t, count |-> n] :
     c \in ColorValues, t \in TypeValues, n \in {Undefined, Num(MinCount + 1)}}
  \cup {[baseColor |-> c, type |-> Str(t), count |-> n] :
          c \in ColorValues, t \in {"monochromatic", "triadic"}, n \in CountValues}

SaveColors ==
  {Str(c) : c \in {"#FF0000", "#f00", "rgb(255, 0, 0)", "rgb(300, 0, 0)", "#GG0000",
                   "notacolor"}}
  \cup {Str(""), Undefined}

NameValues == {Undefined, Str(""), Str("Sky"), Num(7)}

UserIds == {Undefined} \cup {Num(n) : n \in {0, 3} \cup Users}

\* No Math.round argument of the call was exactly halfway.
ExactResult(result) ==
  result.isError
  \/ IF "color" \in DOMAIN result.structuredContent
     THEN LET c == result.structuredContent.color
          IN RgbExact(c.rgb) /\ HslExact(c.hsl)
     ELSE LET cs == result.structuredContent.colors
          IN RgbExact(cs[1].rgb) /\ ExactColors(cs)

RecordTool(op, arg, run) ==
  /\ hist' = <<[op |-> op, arg |-> arg, before |-> db,
                ret |-> run.out, calls |-> run.calls]>>
  /\ db' = run.db
  /\ UNCHANGED ui

GetColorInfo ==
  /\ hist = <<>>
  /\ \E color \in ColorValues, hasWidget \in BOOLEAN :
       \E run \in {x \in {getColorInfo([color |-> color], hasWidget)} : ExactResult(x.out)} :
         RecordTool("getColorInfo", [color |-> color, hasWidget |-> hasWidget], run)

ConvertColor ==
  /\ hist = <<>>
  /\ \E color \in ColorValues, to \in ToValues :
       \E run \in {x \in {convertColor([color |-> color, to |-> to])} : ExactResult(x.out)} :
         RecordTool("convertColor", [color |-> color, to |-> to], run)

GeneratePalette ==
  /\ hist = <<>>
  /\ \E input \in PaletteInputs, hasWidget \in BOOLEAN :
       \E run \in {x \in {generatePalette(input, hasWidget)} : ExactResult(x.out)} :
         RecordTool("generatePalette",
                    [baseColor |-> input.baseColor, type |-> input.type,
                     count |-> input.count, hasWidget |-> hasWidget], run)

SaveFavoriteColor ==
  /\ hist = <<>>
  /\ Now(db) <= MaxSaves
  /\ \E color \in SaveColors, name \in NameValues, userId \in UserIds :
       \E run \in {x \in {saveFavoriteColor([color |-> color, name |-> name], userId)} :
                     ExactResult(x.out)} :
         RecordTool("saveFavoriteColor",
                    [color |-> color, name |-> name, userId |-> userId], run)

GetFavorites ==
  /\ hist = <<>>
  /\ \E userId \in UserIds, hasWidget \in BOOLEAN :
       RecordTool("getFavorites", [userId |-> userId, hasWidget |-> hasWidget],
                  getFavorites(userId, hasWidget))

ToolNext ==
  \/ GetColorInfo
  \/ ConvertColor
  \/ GeneratePalette
  \/ SaveFavoriteColor
  \/ GetFavorites
  \/ Return

ToolSpec == Init /\ [][ToolNext]_vars

(***************************************************************************)
(* REST routes of backend/src/routes/api.ts                                *)
(*                                                                         *)
(* A request passes the middleware authenticateApiKey, then the handler of *)
(* its route, which may call one property tool of                          *)
(* backend/src/tools/properties.ts and sends one response.  hist holds the *)
(* steps of the request in flight.  The property tools ask the Homebuyme   *)
(* API and the database; whether those answer is the environment's choice  *)
(* (ok), and of a tool's result only isError and success are kept.         *)
(***************************************************************************)

\* The users and their API keys: the Authorization headers that are accepted.
KeyOwner(authorization) ==
  IF authorization = Str("Bearer key1") THEN 1
  ELSE IF authorization = Str("Bearer key2") THEN 2
  ELSE 0

\* authenticateApiKey (backend/src/middleware/auth.ts, not among the sources;
\* after the API guide): a request with a valid Bearer token goes on to the
\* handler with req.userId set, any other is answered 401 Unauthorized.
authenticateApiKey(req) ==
  IF KeyOwner(req.authorization) # 0
  THEN [next |-> TRUE, userId |-> Num(KeyOwner(req.authorization))]
  ELSE [next |-> FALSE, status |-> 401]

\* The number a value stands for, doubled (numbers are n or n + 1/2).
Doubled(v) == 2 * v.val + v.frac

\* z.number().positive()
IsPositiveNumber(v) == v.type = "number" /\ ~IsNaN(v.val) /\ Doubled(v) > 0

\* z.string().length(2)
IsTwoCharString(v) == v.type = "string" /\ Len(v.val) = 2

\* Number(text) of a query parameter, for texts of decimal digits or letters.
ToNumber(v) ==
  IF v.val # "" /\ DigitRun(v.val, 10) = Len(v.val)
  THEN Num(DigitsValue(v.val, 10)) ELSE Num(NaN)

\* x ? Number(x) : fallback
NumberOr(v, fallback) ==
  IF ~Truthy(v) THEN fallback
  ELSE IF v.type = "string" THEN ToNumber(v) ELSE Num(NaN)

\* The schemas of the property tools accept the input.
SearchPropertiesValid(input) ==
  /\ IsTwoCharString(input.state)
  /\ input.page.type = "number" /\ ~IsNaN(input.page.val)
  /\ input.page.frac = 0 /\ input.page.val > 0

CalculateSavingsValid(input) == IsPositiveNumber(input.price)

GetPropertyDetailsValid(input) ==
  IsRequiredString(input.propertyId) /\ IsTwoCharString(input.state)

SaveFavoritePropertyValid(input) ==
  /\ IsRequiredString(input.propertyId) /\ IsTwoCharString(input.state)
  /\ IsOptionalString(input.notes)

\* The result of a property tool.
PropertyResult(failed) ==
  [structuredContent |-> [success |-> ~failed], isError |-> failed]

searchProperties(input, userId, ok) ==
  PropertyResult(~SearchPropertiesValid(input) \/ ~ok)

calculatePropertySavings(input, userId, ok) ==
  PropertyResult(~CalculateSavingsValid(input))

\* A Property of the Homebuyme API, of which the id and the two prices are kept.
Property(id, price, priceWithHbm) ==
  [id |-> id, property_price |-> price, property_price_with_hbm |-> priceWithHbm]

\* Faulty variant of calculateSavings: the fee is taken of the Homebuyme price.
calculateSavingsOnHbmPrice(property) ==
  [listPrice |-> property.property_price,
   hbmPrice |-> property.property_price_with_hbm,
   priceDifference |-> property.property_price - property.property_price_with_hbm,
   buyerAgentFee |-> [num |-> 3 * property.property_price_with_hbm, den |-> 100],
   totalSavings |->
     [num |-> 100 * (property.property_price - property.property_price_with_hbm)
              + 3 * property.property_price_with_hbm,
      den |-> 100]]

\* calculateSavings(property).  listPrice * 0.03 and the sum with it are kept
\* as exact fractions num / den; the doubles are the nearest to them.
calculateSavings(property) ==
  [listPrice |-> property.property_price,
   hbmPrice |-> property.property_price_with_hbm,
   priceDifference |-> property.property_price - property.property_price_with_hbm,
   buyerAgentFee |-> [num |-> 3 * property.property_price, den |-> 100],
   totalSavings |->
     [num |-> 100 * (property.property_price - property.property_price_with_hbm)
              + 3 * property.property_price,
      den |-> 100]]

\* response.properties.find((p) => p.id === validatedInput.propertyId): the
\* places in the list of the properties with that id.
Found(response, propertyId) ==
  {k \in DOMAIN response.properties : response.properties[k].id = propertyId}

\* The property found, with its savings.
Detailed(property) ==
  [structuredContent |->
     [success |-> TRUE,
      properties |-> <<[id |-> property.id,
                        property_price |-> property.property_price,
                        property_price_with_hbm |-> property.property_price_with_hbm,
                        savings |-> calculateSavings(property)]>>],
   isError |-> FALSE]

\* response is what getStateProperties returned, Undefined when it threw.
getPropertyDetails(input, userId, response) ==
  IF ~GetPropertyDetailsValid(input) \/ response = Undefined THEN PropertyResult(TRUE)
  ELSE IF Found(response, input.propertyId.val) = {} THEN PropertyResult(TRUE)
  ELSE Detailed(response.properties[CHOOSE k \in Found(response, input.propertyId.val) :
                                      \A j \in Found(response, input.propertyId.val) : k <= j])

saveFavoriteProperty(input, userId, ok) ==
  PropertyResult(~Truthy(userId) \/ ~SaveFavoritePropertyValid(input) \/ ~ok)

getFavoriteProperties(input, userId, ok) ==
  PropertyResult(~Truthy(userId) \/ ~ok)

\* The steps a handler adds to hist: the tool it called, the response it sent.
ToolStep(op, input, userId, result) ==
  [op |-> op, arg |-> input, userId |-> userId, ret |-> result]

Response(status, body) == [op |-> "response", status |-> status, body |-> body]

\* res.status(failure).json(result.structuredContent) when the tool failed,
\* res.json(...) otherwise.
Answered(op, input, userId, result, failure) ==
  <<ToolStep(op, input, userId, result),
    Response(IF result.isError THEN failure ELSE 200, result.structuredContent)>>

Refused(message) == <<Response(400, [success |-> FALSE, error |-> message])>>

\* Faulty variant of PriceRefused: a price of 0 or less is let through.
PriceRefusedUnlessPositive(price) == ~Truthy(price) \/ price.type # "number"

\* !price || typeof price !== 'number' || price <= 0
PriceRefused(price) ==
  ~Truthy(price) \/ price.type # "number" \/ Doubled(price) <= 0

\* !state || typeof state !== 'string' || state.length !== 2
StateRefused(state) ==
  ~Truthy(state) \/ state.type # "string" \/ Len(state.val) # 2

\* !propertyId || !state
FavoriteRefused(propertyId, state) == ~Truthy(propertyId) \/ ~Truthy(state)

\* The handlers: the steps each adds for the request req of user userId.
searchHandler(req, userId, ok) ==
  Answered("searchProperties",
           [state |-> req.state, page |-> NumberOr(req.page, Num(1))],
           userId,
           searchProperties([state |-> req.state, page |-> NumberOr(req.page, Num(1))],
                            userId, ok),
           400)

savingsHandler(req, userId, ok) ==
  IF PriceRefused(req.price)
  THEN Refused("Invalid price. Must be a positive number.")
  ELSE Answered("calculatePropertySavings", [price |-> req.price], userId,
                calculatePropertySavings([price |-> req.price], userId, ok), 400)

detailsHandler(req, userId, response) ==
  IF StateRefused(req.state)
  THEN Refused("State parameter is required (2-letter code, e.g., WA, CA)")
  ELSE Answered("getPropertyDetails",
                [propertyId |-> req.propertyId, state |-> req.state], userId,
                getPropertyDetails([propertyId |-> req.propertyId, state |-> req.state],
                                   userId, response),
                404)

saveFavoriteHandler(req, userId, ok) ==
  IF FavoriteRefused(req.propertyId, req.state)
  THEN Refused("propertyId and state are required")
  ELSE Answered("saveFavoriteProperty",
                [propertyId |-> req.propertyId, state |-> req.state, notes |-> req.notes],
                userId,
                saveFavoriteProperty([propertyId |-> req.propertyId, state |-> req.state,
                                      notes |-> req.notes], userId, ok),
                400)

getFavoritesHandler(req, userId, ok) ==
  Answered("getFavoriteProperties", [type |-> "object"], userId,
           getFavoriteProperties([type |-> "object"], userId, ok), 400)

\* Requests.
Authorizations == {Undefined, Str("Bearer wrong"), Str("Bearer key1"), Str("Bearer key2")}

StateValues == {Undefined, Str(""), Str("W"), Str("WA"), Str("CA"), Str("WAS"),
                Arr(<<"W", "A">>)}

PageValues == {Undefined, Str("2"), Str("x")}

PriceValues == {Undefined, Str("500000"), Num(0), Num(-5), NumAndHalf(-1), NumAndHalf(0),
                Num(500000)}

PropertyIds == {Undefined, Str(""), Str("p1"), Num(7)}

NotesValues == {Undefined, Str("near the lake")}

Requests ==
  {[route |-> "GET /properties/search", authorization |-> a, state |-> s, page |-> p] :
     a \in Authorizations, s \in StateValues, p \in PageValues}
  \cup {[route |-> "POST /savings/calculate", authorization |-> a, price |-> p] :
          a \in Authorizations, p \in PriceValues}
  \cup {[route |-> "GET /properties/:propertyId", authorization |-> a,
         propertyId |-> i, state |-> s] :
          a \in Authorizations, i \in {Str("p1")}, s \in StateValues}
  \cup {[route |-> "POST /favorites", authorization |-> a, propertyId |-> i,
         state |-> s, notes |-> n] :
          a \in Authorizations, i \in PropertyIds, s \in StateValues \ {Arr(<<"W", "A">>)},
          n \in NotesValues}
  \cup {[route |-> "GET /favorites", authorization |-> a] : a \in Authorizations}

\* List and Homebuyme prices of the properties the API lists.
ListedPrices ==
  {<<1000000, 980000>>, <<350000, 350000>>, <<500000, 510000>>, <<100, 97>>, <<7, 7>>,
   <<0, 0>>}

ListedProperties ==
  {Property(id, p[1], p[2]) : id \in {"p1", "p2"}, p \in ListedPrices}

\* What getStateProperties returns: Undefined when the fetch fails.
ApiResponses ==
  {Undefined, [properties |-> <<>>]}
  \cup {[properties |-> <<p>>] : p \in ListedProperties}
  \cup {[properties |-> <<p, q>>] : p \in {Property("p2", 7, 7)}, q \in ListedProperties}

\* The request in flight and the point it has reached.
Request == hist[1].arg

Authenticated == hist # <<>> /\ Last.op = "authenticateApiKey" /\ Last.ret.next

AtRoute(route) == Authenticated /\ Request.route = route

Receive ==
  /\ hist = <<>>
  /\ \E req \in Requests : hist' = <<[op |-> "request", arg |-> req]>>
  /\ UNCHANGED <<db, ui>>

\* The middleware: next(), or the 401 response.
AuthenticateApiKey ==
  /\ hist # <<>> /\ Last.op = "request"
  /\ \E auth \in {authenticateApiKey(Request)} :
       hist' = hist \o <<[op |-> "authenticateApiKey", arg |-> Request.authorization,
                          ret |-> auth]>>
                    \o (IF auth.next THEN <<>>
                        ELSE <<Response(auth.status, [success |-> FALSE])>>)
  /\ UNCHANGED <<db, ui>>

Handle(steps) == hist' = hist \o steps /\ UNCHANGED <<db, ui>>

SearchHandler ==
  /\ AtRoute("GET /properties/search")
  /\ \E ok \in BOOLEAN : Handle(searchHandler(Request, Last.ret.userId, ok))

SavingsHandler ==
  /\ AtRoute("POST /savings/calculate")
  /\ \E ok \in BOOLEAN : Handle(savingsHandler(Request, Last.ret.userId, ok))

DetailsHandler ==
  /\ AtRoute("GET /properties/:propertyId")
  /\ \E response \in ApiResponses :
       Handle(detailsHandler(Request, Last.ret.userId, response))

SaveFavoriteHandler ==
  /\ AtRoute("POST /favorites")
  /\ \E ok \in BOOLEAN : Handle(saveFavoriteHandler(Request, Last.ret.userId, ok))

GetFavoritesHandler ==
  /\ AtRoute("GET /favorites")
  /\ \E ok \in BOOLEAN : Handle(getFavoritesHandler(Request, Last.ret.userId, ok))

\* The response is sent; the server takes the next request.
Sent == hist # <<>> /\ Last.op = "response" /\ hist' = <<>> /\ UNCHANGED <<db, ui>>

RestNext ==
  \/ Receive
  \/ AuthenticateApiKey
  \/ SearchHandler
  \/ SavingsHandler
  \/ DetailsHandler
  \/ SaveFavoriteHandler
  \/ GetFavoritesHandler
  \/ Sent

RestSpec == Init /\ [][RestNext]_vars

(***************************************************************************)
(* The widgets ColorSwatch (frontend/src/widgets/color.tsx) and            *)
(* PropertyCard.  ui holds the React state of the two components and what  *)
(* the browser holds for them: per widget the callTool promises not yet    *)
(* settled (calls) and the 3000 ms timers not yet fired (saveTimers); the  *)
(* copyToClipboard promises not yet settled (clipboard), the 2000 ms       *)
(* timers not yet fired in the order they were started (copyTimers), each  *)
(* the number of the copy click that started it, and the number of the     *)
(* copy click that set copiedValue last (copiedBy).  Timers of one delay   *)
(* fire in the order they were started.  An event handler and the render   *)
(* that follows its state updates are one step; an async handler is one    *)
(* step up to its await and one step from it.  hist holds the last step.   *)
(***************************************************************************)

MaxCopies == 3

Labels == {"HEX", "RGB", "HSL"}

\* Faulty variant of SaveDisabled: the button is disabled only while saving.
SaveDisabledWhileSaving(widget) == widget.isSaving

\* disabled={isSaving || isSaved}
SaveDisabled(widget) == widget.isSaving \/ widget.isSaved

\* s without its k-th element.
Without(s, k) == SubSeq(s, 1, k - 1) \o SubSeq(s, k + 1, Len(s))

Step(op, arg, next) ==
  /\ hist' = <<[op |-> op, arg |-> arg, before |-> ui]>>
  /\ ui' = next
  /\ UNCHANGED db

\* A click on the save button: handleSaveFavorite up to await callTool(...).
HandleSaveFavorite(w) ==
  /\ ~SaveDisabled(ui[w])
  /\ Step("handleSaveFavorite", w,
          [ui EXCEPT ![w].isSaving = TRUE, !.calls[w] = @ + 1])

\* callTool resolves: setIsSaved(true), setTimeout(..., 3000), then finally.
CallToolResolves(w) ==
  /\ ui.calls[w] > 0
  /\ Step("callTool resolves", w,
          [ui EXCEPT ![w].isSaved = TRUE, ![w].isSaving = FALSE,
                     !.calls[w] = @ - 1, !.saveTimers[w] = @ + 1])

\* callTool rejects: the catch block, then finally.
CallToolRejects(w) ==
  /\ ui.calls[w] > 0
  /\ Step("callTool rejects", w,
          [ui EXCEPT ![w].isSaving = FALSE, !.calls[w] = @ - 1])

\* () => setIsSaved(false)
SaveTimerFires(w) ==
  /\ ui.saveTimers[w] > 0
  /\ Step("save timer fires", w,
          [ui EXCEPT ![w].isSaved = FALSE, !.saveTimers[w] = @ - 1])

\* A click on a copy button: handleCopy up to await copyToClipboard(value).
HandleCopy ==
  /\ ui.copies < MaxCopies
  /\ \E label \in Labels :
       Step("handleCopy", label,
            [ui EXCEPT !.copies = @ + 1,
                       !.clipboard = Append(@, [copy |-> ui.copies + 1, label |-> label])])

\* copyToClipboard resolves: setCopiedValue(label), setTimeout(..., 2000).
CopyResolves ==
  \E k \in DOMAIN ui.clipboard :
    Step("copyToClipboard resolves", ui.clipboard[k].copy,
         [ui EXCEPT !.ColorSwatch.copiedValue = Str(ui.clipboard[k].label),
                    !.copiedBy = ui.clipboard[k].copy,
                    !.copyTimers = Append(@, ui.clipboard[k].copy),
                    !.clipboard = Without(@, k)])

\* copyToClipboard rejects: the catch block.
CopyRejects ==
  \E k \in DOMAIN ui.clipboard :
    Step("copyToClipboard rejects", ui.clipboard[k].copy,
         [ui EXCEPT !.clipboard = Without(@, k)])

\* () => setCopiedValue(null)
CopyTimerFires ==
  /\ ui.copyTimers # <<>>
  /\ Step("copy timer fires", Head(ui.copyTimers),
          [ui EXCEPT !.ColorSwatch.copiedValue = Null, !.copyTimers = Tail(@)])

WidgetNext ==
  \/ \E w \in Widgets : HandleSaveFavorite(w)
  \/ \E w \in Widgets : CallToolResolves(w)
  \/ \E w \in Widgets : CallToolRejects(w)
  \/ \E w \in Widgets : SaveTimerFires(w)
  \/ HandleCopy
  \/ CopyResolves
  \/ CopyRejects
  \/ CopyTimerFires

WidgetSpec == Init /\ [][WidgetNext]_vars

\* The browser runs every timer that is due.
WidgetLive == WidgetSpec /\ \A w \in Widgets : WF_vars(SaveTimerFires(w))

(***************************************************************************)
(* Properties.  Each is stated of the calls recorded in hist; a property   *)
(* of one call is stated of the last call, which every call once is.       *)
(***************************************************************************)

\* The characters after an optional leading '#'.
WithoutHash(s) == IF s # "" /\ Head(s) = "#" THEN Tail(s) ELSE s

\* s[i..j] is a non-empty run of decimal digits.
AllDigits(s, i, j) == i <= j /\ \A k \in i..j : IsDigit(CharAt(s, k))

\* s[i..j] is a run of white space, possibly empty, then a non-empty run of digits.
SpacedDigits(s, i, j) ==
  \E m \in i..j : AllDigits(s, m, j) /\ \A k \in i..(m - 1) : IsWs(CharAt(s, k))

Positions(s, c) == {k \in 1..Len(s) : CharAt(s, k) = c}

\* s contains the text rgb(r,g,b): three runs of digits, white space allowed
\* after each comma, letters in either case.
ContainsRgbForm(s) ==
  \E i \in {k \in 1..(Len(s) - 3) : ToLowerCase(SubSeq(s, k, k + 3)) = "rgb("} :
    \E p \in Positions(s, ","), q \in Positions(s, ","), e \in Positions(s, ")") :
      /\ AllDigits(s, i + 4, p - 1)
      /\ SpacedDigits(s, p + 1, q - 1)
      /\ SpacedDigits(s, q + 1, e - 1)

\* s contains the text hsl(h,s%,l%).
ContainsHslForm(s) ==
  \E i \in {k \in 1..(Len(s) - 3) : ToLowerCase(SubSeq(s, k, k + 3)) = "hsl("} :
    \E p \in Positions(s, ","), q \in Positions(s, ","), e \in Positions(s, ")") :
      /\ AllDigits(s, i + 4, p - 1)
      /\ CharAt(s, q - 1) = "%" /\ SpacedDigits(s, p + 1, q - 2)
      /\ CharAt(s, e - 1) = "%" /\ SpacedDigits(s, q + 1, e - 2)

AllHexDigits(s) == \A k \in 1..Len(s) : IsHexDigit(CharAt(s, k))

SixHexDigits(s) == Len(s) = 6 /\ AllHexDigits(s)

HashPrefixed(s) == s # "" /\ Head(s) = "#"

\* s has one of the four forms parseColor recognizes.
Recognized(s) ==
  HashPrefixed(s) \/ ContainsRgbForm(s) \/ ContainsHslForm(s) \/ SixHexDigits(s)

\* The characters after the optional '#' are 3 or 6 hexadecimal digits.
ValidHexBody(b) == Len(b) \in {3, 6} /\ AllHexDigits(b)

PaletteOps == {"getAnalogous", "getTriadic", "getTetradic", "getMonochromatic"}

RotationOps == {"getAnalogous", "getTriadic", "getTetradic"}

\* The ColorInfo values a call produced, as a sequence.
Produced(call) ==
  IF call.op \in {"generateRandomColor", "getComplementary"} THEN <<call.ret>>
  ELSE IF call.op = "parseColor"
  THEN (IF call.ret = InvalidFormat THEN <<>> ELSE <<call.ret>>)
  ELSE IF call.op \in PaletteOps THEN call.ret
  ELSE <<>>

\* The representation a produced ColorInfo was derived from.
DerivedFrom(call) ==
  IF call.op = "generateRandomColor" THEN "rgb"
  ELSE IF call.op = "parseColor"
  THEN (IF HashPrefixed(Trim(call.arg)) THEN "hex"
        ELSE IF ContainsRgbForm(Trim(call.arg)) THEN "rgb"
        ELSE IF ContainsHslForm(Trim(call.arg)) THEN "hsl"
        ELSE "hex")
  ELSE "hsl"

Abs(x) == IF x < 0 THEN -x ELSE x

\* C1: for every integer RGB triple in [0,255]^3, hexToRgb(rgbToHex(rgb))
\* returns exactly the same triple.
C1_HexRoundTrip ==
  \A i \in 2..Len(hist) :
    (/\ hist[i].op = "hexToRgb"
     /\ hist[i - 1].op = "rgbToHex"
     /\ InRangeRgb(hist[i - 1].arg))
    => hist[i].ret = hist[i - 1].arg

C1_Witness ==
  /\ Len(hist) = 2
  /\ hist[1].op = "rgbToHex" /\ hist[1].arg = Rgb(17, 1, 254)
  /\ hist[2].op = "hexToRgb" /\ hist[2].arg = "#1101FE"
  /\ hist[2].ret = Rgb(17, 1, 254)

\* C2 as stated: for every integer HSL triple with h in [0,360) and s, l in
\* [0,100], rgbToHsl(hslToRgb(hsl)) differs from the triple by at most 1 in
\* each of h, s and l.
C2_DriftAtMostOne ==
  \A i \in 2..Len(hist) :
    (/\ hist[i].op = "rgbToHsl"
     /\ hist[i - 1].op = "hslToRgb"
     /\ InRangeHsl(hist[i - 1].arg))
    => /\ Abs(hist[i].ret.h - hist[i - 1].arg.h) <= 1
       /\ Abs(hist[i].ret.s - hist[i - 1].arg.s) <= 1
       /\ Abs(hist[i].ret.l - hist[i - 1].arg.l) <= 1

\* C2: for every integer HSL triple with h in [0,360) and s, l in [0,100],
\* rgbToHsl(hslToRgb(hsl)) has the lightness of the triple (hue and saturation
\* may come back changed by more than 1).
C2_LightnessKept ==
  \A i \in 2..Len(hist) :
    (/\ hist[i].op = "rgbToHsl"
     /\ hist[i - 1].op = "hslToRgb"
     /\ InRangeHsl(hist[i - 1].arg))
    => hist[i].ret.l = hist[i - 1].arg.l

C2_Witness ==
  /\ Len(hist) = 2
  /\ hist[1].op = "hslToRgb" /\ hist[1].arg = Hsl(0, 50, 0)
  /\ hist[2].op = "rgbToHsl" /\ hist[2].ret = Hsl(0, 0, 0)

\* C3 as stated: for every integer RGB triple in [0,255]^3, rgbToHsl returns
\* hue in [0,360), saturation in [0,100] and lightness in [0,100].
C3_HslInRange ==
  (hist # <<>> /\ Last.op = "rgbToHsl" /\ InRangeRgb(Last.arg))
  => InRangeHsl(Last.ret)

\* C4 as stated: every ColorInfo produced by parseColor, generateRandomColor
\* and the five palette functions satisfies rgb = hexToRgb(hex) and
\* hsl = rgbToHsl(rgb).  (The second equation is read only where rgbToHsl of
\* the rgb has no halfway value.)
C4_AllFieldsDerived ==
  hist # <<>> =>
    \A k \in DOMAIN Produced(Last) :
      /\ Produced(Last)[k].rgb = hexToRgb(Produced(Last)[k].hex)
      /\ RgbExact(Produced(Last)[k].rgb)
           => Produced(Last)[k].hsl = rgbToHsl(Produced(Last)[k].rgb)

\* C4: every ColorInfo produced by parseColor, generateRandomColor and the
\* five palette functions is consistent with the representation it was
\* derived from: from hex text, rgb = hexToRgb(hex) and hsl = rgbToHsl(rgb);
\* from an rgb, hex = rgbToHex(rgb) and hsl = rgbToHsl(rgb); from an hsl
\* (hsl text and every palette colour), rgb = hslToRgb(hsl) and
\* hex = rgbToHex(rgb), the hsl being the one asked for; and
\* rgb = hexToRgb(hex) whenever the channels are in [0,255].
C4_ConsistentWithOrigin ==
  hist # <<>> =>
    \A k \in DOMAIN Produced(Last) :
      /\ InRangeRgb(Produced(Last)[k].rgb)
           => Produced(Last)[k].rgb = hexToRgb(Produced(Last)[k].hex)
      /\ DerivedFrom(Last) = "hex"
           => /\ Produced(Last)[k].rgb = hexToRgb(Produced(Last)[k].hex)
              /\ Produced(Last)[k].hsl = rgbToHsl(Produced(Last)[k].rgb)
      /\ DerivedFrom(Last) = "rgb"
           => /\ Produced(Last)[k].hex = rgbToHex(Produced(Last)[k].rgb)
              /\ Produced(Last)[k].hsl = rgbToHsl(Produced(Last)[k].rgb)
      /\ DerivedFrom(Last) = "hsl"
           => /\ Produced(Last)[k].hex = rgbToHex(Produced(Last)[k].rgb)
              /\ Produced(Last)[k].rgb = hslToRgb(Produced(Last)[k].hsl)

C4_Witness ==
  /\ Len(hist) = 2
  /\ hist[1].op = "parseColor" /\ hist[1].arg = "hsl(0, 50%, 0%)"
  /\ hist[1].ret = ColorInfo("#000000", Rgb(0, 0, 0), Hsl(0, 50, 0))
  /\ hist[2].op = "getComplementary"
  /\ hist[2].ret = ColorInfo("#000000", Rgb(0, 0, 0), Hsl(180, 50, 0))

\* The spellings of a triple in [0,255]^3: '#RRGGBB' and 'RRGGBB' in upper,
\* lower and mixed case, 'rgb(r, g, b)' in lower and upper case.
Spellings(t) ==
  { "#" \o SpellHex(t, UpperDigits), SpellHex(t, UpperDigits),
    "#" \o SpellHex(t, LowerDigits), SpellHex(t, LowerDigits),
    "#" \o SpellHexMixed(t), SpellHexMixed(t),
    SpellRgb(t, " "), ToUpperCase(SpellRgb(t, " ")) }

\* Every pair of a spelling and the triple it spells.
SpellingPairs == UNION {{<<w, t>> : w \in Spellings(t)} : t \in RgbGrid}

\* C5: parseColor returns the identical ColorInfo, with hex '#RRGGBB' in upper
\* case, for the '#RRGGBB', bare 'RRGGBB' and 'rgb(r, g, b)' spellings of the
\* same triple in [0,255]^3 in any letter case; "#FF0000", "FF0000",
\* "rgb(255, 0, 0)" and "hsl(0, 100%, 50%)" all yield
\* {hex: "#FF0000", rgb: {255,0,0}, hsl: {0,100,50}}.
C5_SameForEverySpelling ==
  (hist # <<>> /\ Last.op = "parseColor") =>
    /\ \A p \in SpellingPairs :
         p[1] = Last.arg
           => Last.ret = ColorInfo("#" \o SpellHex(p[2], UpperDigits), p[2],
                                   rgbToHsl(p[2]))
    /\ Last.arg \in {"#FF0000", "FF0000", "rgb(255, 0, 0)", "hsl(0, 100%, 50%)"}
         => Last.ret = ColorInfo("#FF0000", Rgb(255, 0, 0), Hsl(0, 100, 50))

C5_Witness ==
  /\ Len(hist) = 1 /\ Last.op = "parseColor" /\ Last.arg = "RGB(17, 254, 128)"
  /\ Last.ret.hex = "#11FE80"

\* C6: parseColor fails with InvalidFormat for every input that, trimmed, has
\* none of the four recognized forms: it does not start with '#', holds no
\* rgb(r, g, b) and no hsl(h, s%, l%) text and is not six hexadecimal digits;
\* so for "notacolor", "" and "rgb(-1, 0, 0)".
C6_UnrecognizedFails ==
  (hist # <<>> /\ Last.op = "parseColor" /\ ~Recognized(Trim(Last.arg)))
  => Last.ret = InvalidFormat

C6_Witness ==
  /\ Len(hist) = 1 /\ Last.op = "parseColor" /\ Last.arg = "rgb(-1, 0, 0)"
  /\ Last.ret = InvalidFormat

\* C7 as stated: hexToRgb, and parseColor on a '#'-prefixed input, fail with
\* InvalidFormat whenever the characters after the optional '#' are not all
\* hexadecimal digits or their number is neither 3 nor 6.
C7_InvalidHexFails ==
  /\ (hist # <<>> /\ Last.op = "hexToRgb" /\ ~ValidHexBody(WithoutHash(Last.arg)))
     => Last.ret = InvalidFormat
  /\ (/\ hist # <<>> /\ Last.op = "parseColor"
      /\ HashPrefixed(Trim(Last.arg))
      /\ ~ValidHexBody(WithoutHash(Trim(Last.arg))))
     => Last.ret = InvalidFormat

\* C8: hexToRgb gives the same result with or without a leading '#', in upper
\* or lower case, and for a 3-digit shorthand XYZ the result of the 6-digit
\* form XXYYZZ, for all hexadecimal digits X, Y, Z.
C8_HexSpellingsAgree ==
  (hist # <<>> /\ Last.op = "hexToRgb") =>
    /\ Last.ret = hexToRgb(WithoutHash(Last.arg))
    /\ Last.ret = hexToRgb("#" \o WithoutHash(Last.arg))
    /\ Last.ret = hexToRgb(ToUpperCase(Last.arg))
    /\ Last.ret = hexToRgb(ToLowerCase(Last.arg))
    /\ (Len(WithoutHash(Last.arg)) = 3 /\ AllHexDigits(WithoutHash(Last.arg)))
         => Last.ret = hexToRgb(CharAt(WithoutHash(Last.arg), 1)
                                  \o CharAt(WithoutHash(Last.arg), 1)
                                  \o CharAt(WithoutHash(Last.arg), 2)
                                  \o CharAt(WithoutHash(Last.arg), 2)
                                  \o CharAt(WithoutHash(Last.arg), 3)
                                  \o CharAt(WithoutHash(Last.arg), 3))

C8_Witness ==
  /\ Len(hist) = 1 /\ Last.op = "hexToRgb" /\ Last.arg = "#a9F"
  /\ Last.ret = Rgb(170, 153, 255)

\* C9: for every base ColorInfo with an integer hue in [0,360), every colour
\* returned by getComplementary, getAnalogous, getTriadic and getTetradic has
\* hsl.h in [0,360).
C9_HuesInRange ==
  (/\ hist # <<>>
   /\ Last.op \in RotationOps \cup {"getComplementary"}
   /\ Last.arg.hsl.h \in 0..MaxHue)
  => \A k \in DOMAIN Produced(Last) : Produced(Last)[k].hsl.h \in 0..MaxHue

C9_Witness ==
  /\ Len(hist) = 2 /\ Last.op = "getAnalogous"
  /\ Last.arg.hsl.h = 0 /\ InRangeHsl(Last.arg.hsl)
  /\ Last.ret[1].hsl.h = 330 /\ Last.ret[3].hsl.h = 30

\* C10: getComplementary returns one colour whose hue is (base hue + 180) mod
\* 360 with the base saturation and lightness; for base #FF0000
\* (hsl 0,100,50) the result has hue 180 and hex #00FFFF.
C10_Complement ==
  (hist # <<>> /\ Last.op = "getComplementary") =>
    /\ DOMAIN Last.ret = {"hex", "rgb", "hsl"}
    /\ Last.ret.hsl = Hsl((Last.arg.hsl.h + 180) % 360, Last.arg.hsl.s, Last.arg.hsl.l)
    /\ (Last.arg.hex = "#FF0000" /\ Last.arg.hsl = Hsl(0, 100, 50))
         => (Last.ret.hsl.h = 180 /\ Last.ret.hex = "#00FFFF")

C10_Witness ==
  /\ Len(hist) = 2
  /\ hist[1].op = "parseColor" /\ hist[1].arg = "#FF0000"
  /\ hist[2].op = "getComplementary"
  /\ hist[2].arg.hsl = Hsl(0, 100, 50)
  /\ hist[2].ret.hsl.h = 180 /\ hist[2].ret.hex = "#00FFFF"

\* The hues of a palette, in order.
HuesOf(colors) == [k \in DOMAIN colors |-> colors[k].hsl.h]

\* C11: for a base with hue h in [0,360), getAnalogous returns exactly 3
\* colours with hues (h - 30, h, h + 30) mod 360 in that order, getTriadic
\* exactly 3 with hues (h, h + 120, h + 240) mod 360, and getTetradic exactly 4
\* with hues (h, h + 90, h + 180, h + 270) mod 360.
C11_RotationHues ==
  (hist # <<>> /\ Last.op \in RotationOps /\ Last.arg.hsl.h \in 0..MaxHue) =>
    /\ Last.op = "getAnalogous"
         => HuesOf(Last.ret) = << (Last.arg.hsl.h - 30) % 360,
                                  Last.arg.hsl.h,
                                  (Last.arg.hsl.h + 30) % 360 >>
    /\ Last.op = "getTriadic"
         => HuesOf(Last.ret) = << Last.arg.hsl.h,
                                  (Last.arg.hsl.h + 120) % 360,
                                  (Last.arg.hsl.h + 240) % 360 >>
    /\ Last.op = "getTetradic"
         => HuesOf(Last.ret) = << Last.arg.hsl.h,
                                  (Last.arg.hsl.h + 90) % 360,
                                  (Last.arg.hsl.h + 180) % 360,
                                  (Last.arg.hsl.h + 270) % 360 >>

C11_Witness ==
  /\ Len(hist) = 2 /\ Last.op = "getTriadic"
  /\ Last.arg.hsl.h = 300 /\ InRangeHsl(Last.arg.hsl)
  /\ HuesOf(Last.ret) = <<300, 60, 180>>

\* The lightness values of a palette, in order.
LightnessOf(colors) == [k \in DOMAIN colors |-> colors[k].hsl.l]

\* l is the integer nearest to num / den (den > 0), the upper one of two.
NearestTo(l, num, den) == 2 * num - den < 2 * den * l /\ 2 * den * l <= 2 * num + den

\* C12: for every count in [3,10], getMonochromatic(base, count) returns
\* exactly count colours, all with the base hue and saturation, whose lightness
\* is round(10 + i * 80 / (count - 1)) for i = 0..count-1: the first is 10, the
\* last is 90, the values strictly increase; for count 5, the default, they
\* are 10, 30, 50, 70, 90.
C12_Monochromatic ==
  (/\ hist # <<>> /\ Last.op = "getMonochromatic"
   /\ Last.arg.count \in 3..10) =>
    /\ DOMAIN Last.ret = 1..Last.arg.count
    /\ \A k \in DOMAIN Last.ret :
         /\ Last.ret[k].hsl.h = Last.arg.color.hsl.h
         /\ Last.ret[k].hsl.s = Last.arg.color.hsl.s
         /\ NearestTo(Last.ret[k].hsl.l,
                      10 * (Last.arg.count - 1) + 80 * (k - 1), Last.arg.count - 1)
         /\ k > 1 => Last.ret[k - 1].hsl.l < Last.ret[k].hsl.l
    /\ Last.ret[1].hsl.l = 10
    /\ Last.ret[Last.arg.count].hsl.l = 90
    /\ Last.arg.count = DefaultCount => LightnessOf(Last.ret) = <<10, 30, 50, 70, 90>>

C12_Witness ==
  /\ Len(hist) = 2 /\ Last.op = "getMonochromatic" /\ Last.arg.count = 4
  /\ InRangeHsl(Last.arg.color.hsl)
  /\ LightnessOf(Last.ret) = <<10, 37, 63, 90>>

\* The base ColorInfo a palette call was given.
BaseOf(call) == IF call.op = "getMonochromatic" THEN call.arg.color ELSE call.arg

\* C13: getComplementary, getAnalogous, getTriadic and getTetradic copy the
\* base saturation and lightness into every output unchanged, and none of the
\* five palette functions modifies any field of the base ColorInfo passed in:
\* hex, rgb and hsl are the same after the call.
C13_BaseUnchanged ==
  (hist # <<>> /\ Last.op \in PaletteOps \cup {"getComplementary"}) =>
    /\ Last.after = BaseOf(Last)
    /\ Last.op # "getMonochromatic" =>
         \A k \in DOMAIN Produced(Last) :
           /\ Produced(Last)[k].hsl.s = BaseOf(Last).hsl.s
           /\ Produced(Last)[k].hsl.l = BaseOf(Last).hsl.l

C13_Witness ==
  /\ Len(hist) = 2 /\ Last.op = "getTetradic"
  /\ Last.arg.hsl = Hsl(300, 50, 29)
  /\ Last.after = Last.arg
  /\ Last.ret[2].hsl = Hsl(30, 50, 29)

\* C14: every colour returned by any of the five palette functions has rgb
\* equal to hslToRgb of its own hsl and hex equal to rgbToHex of its own rgb.
C14_PaletteFromHsl ==
  (hist # <<>> /\ Last.op \in PaletteOps \cup {"getComplementary"}) =>
    \A k \in DOMAIN Produced(Last) :
      /\ Produced(Last)[k].rgb = hslToRgb(Produced(Last)[k].hsl)
      /\ Produced(Last)[k].hex = rgbToHex(Produced(Last)[k].rgb)

C14_Witness ==
  /\ Len(hist) = 2 /\ Last.op = "getMonochromatic" /\ Last.arg.count = 3
  /\ Last.arg.color.hex = "#FF0000"
  /\ Last.ret[1] = ColorInfo("#330000", Rgb(51, 0, 0), Hsl(0, 100, 10))
  /\ Last.ret[3] = ColorInfo("#FFCCCC", Rgb(255, 204, 204), Hsl(0, 100, 90))

\* C15: for every HSL with saturation < 10, getColorName returns, whatever the
\* hue, exactly 'Black' if l < 20, 'Dark Gray' if 20 <= l < 40, 'Gray' if
\* 40 <= l < 60, 'Light Gray' if 60 <= l < 80 and 'White' if l >= 80, with no
\* prefix; hsl(0,0,50) is 'Gray'.
C15_AchromaticNames ==
  (/\ hist # <<>> /\ Last.op = "getColorName"
   /\ ~IsNaN(Last.arg.hsl.s) /\ ~IsNaN(Last.arg.hsl.l)
   /\ Last.arg.hsl.s < 10) =>
    /\ Last.arg.hsl.l < 20 => Last.ret = "Black"
    /\ (20 <= Last.arg.hsl.l /\ Last.arg.hsl.l < 40) => Last.ret = "Dark Gray"
    /\ (40 <= Last.arg.hsl.l /\ Last.arg.hsl.l < 60) => Last.ret = "Gray"
    /\ (60 <= Last.arg.hsl.l /\ Last.arg.hsl.l < 80) => Last.ret = "Light Gray"
    /\ Last.arg.hsl.l >= 80 => Last.ret = "White"
    /\ Last.arg.hsl = Hsl(0, 0, 50) => Last.ret = "Gray"

C15_Witness ==
  /\ Len(hist) = 1 /\ Last.op = "getColorName"
  /\ Last.arg.hsl = Hsl(210, 9, 20) /\ Last.ret = "Dark Gray"

\* The bands of the hue circle: inclusive upper bound and name.
HueBands ==
  << <<15, "Red">>, <<45, "Orange">>, <<70, "Yellow">>, <<150, "Green">>,
     <<210, "Cyan">>, <<250, "Blue">>, <<290, "Purple">>, <<330, "Magenta">>,
     <<360, "Red">> >>

\* The name of the first band whose upper bound is at least h, for h <= 360.
BandName(h) ==
  HueBands[CHOOSE k \in DOMAIN HueBands :
             /\ h <= HueBands[k][1]
             /\ \A j \in 1..(k - 1) : h > HueBands[j][1]][2]

\* C16: for every HSL with saturation >= 10 and hue in [0,360), getColorName
\* returns prefix + hueName, hueName being that of the first band whose
\* inclusive upper bound (15 Red, 45 Orange, 70 Yellow, 150 Green, 210 Cyan,
\* 250 Blue, 290 Purple, 330 Magenta, 360 Red) is >= h, and prefix exactly one
\* of 'Dark ' (l < 30), else 'Light ' (l > 70), else 'Pale ' (s < 40), else
\* 'Vivid ' (s > 80), else empty; hsl(0,100,50) is named 'Vivid Red'.
C16_ChromaticNames ==
  (/\ hist # <<>> /\ Last.op = "getColorName"
   /\ ~IsNaN(Last.arg.hsl.s) /\ ~IsNaN(Last.arg.hsl.l)
   /\ Last.arg.hsl.s >= 10 /\ Last.arg.hsl.h \in 0..359) =>
    /\ Last.arg.hsl.l < 30
         => Last.ret = "Dark " \o BandName(Last.arg.hsl.h)
    /\ Last.arg.hsl.l > 70
         => Last.ret = "Light " \o BandName(Last.arg.hsl.h)
    /\ (Last.arg.hsl.l \in 30..70 /\ Last.arg.hsl.s < 40)
         => Last.ret = "Pale " \o BandName(Last.arg.hsl.h)
    /\ (Last.arg.hsl.l \in 30..70 /\ Last.arg.hsl.s > 80)
         => Last.ret = "Vivid " \o BandName(Last.arg.hsl.h)
    /\ (Last.arg.hsl.l \in 30..70 /\ Last.arg.hsl.s \in 40..80)
         => Last.ret = BandName(Last.arg.hsl.h)
    /\ Last.arg.hsl = Hsl(0, 100, 50) => Last.ret = "Vivid Red"

C16_Witness ==
  /\ Len(hist) = 1 /\ Last.op = "getColorName"
  /\ Last.arg.hsl = Hsl(15, 39, 70) /\ Last.ret = "Pale Red"

\* s is '#' followed by exactly six upper-case hexadecimal digits.
CanonicalHex(s) ==
  /\ Len(s) = 7 /\ Head(s) = "#"
  /\ \A k \in 2..7 : \E d \in 1..Len(UpperDigits) : CharAt(s, k) = CharAt(UpperDigits, d)

\* C17 as stated: for every hex input parseColor accepts (3 or 6 digits in any
\* letter case with '#', or 6 digits without), the returned hex is '#' followed
\* by exactly 6 upper-case hexadecimal digits and equals rgbToHex of the
\* returned rgb.
C17_CanonicalHex ==
  (/\ hist # <<>> /\ Last.op = "parseColor"
   /\ \/ HashPrefixed(Trim(Last.arg)) /\ ValidHexBody(WithoutHash(Trim(Last.arg)))
      \/ SixHexDigits(Trim(Last.arg))) =>
    /\ Last.ret # InvalidFormat
    /\ CanonicalHex(Last.ret.hex)
    /\ Last.ret.hex = rgbToHex(Last.ret.rgb)

\* The tools built on parseColor that return the ColorInfo they were given.
ColorTools == {"getColorInfo", "convertColor", "generatePalette"}

\* The colour field of a tool call's input.
ToolColor(call) == IF call.op = "generatePalette" THEN call.arg.baseColor ELSE call.arg.color

\* The colours a tool result carries.
ReturnedColors(ret) ==
  IF ret.isError THEN <<>>
  ELSE IF "color" \in DOMAIN ret.structuredContent THEN <<ret.structuredContent.color>>
  ELSE ret.structuredContent.colors

\* A colour of the data model: channels in [0,255], hue in [0,360), s and l
\* in [0,100], hex '#' and six digits.
InDataModel(c) ==
  /\ InRangeRgb(c.rgb)
  /\ InRangeHsl(c.hsl)
  /\ HashPrefixed(c.hex) /\ SixHexDigits(Tail(c.hex))

\* Colour texts with a number outside the data-model ranges.
OutOfRangeTexts == {"rgb(300, 0, 0)", "hsl(400, 50%, 50%)", "hsl(0, 200%, 50%)"}

\* C18 as stated: a colour text whose numbers are outside the data-model
\* ranges is rejected with an error: getColorInfo, convertColor and
\* generatePalette, given such a text, return an error result and no colour
\* with a channel outside [0,255], a hue outside [0,360), s or l outside
\* [0,100] or a hex that is not six digits.
C18_OutOfRangeRejected ==
  (/\ hist # <<>> /\ Last.op \in ColorTools
   /\ ToolColor(Last) \in {Str(t) : t \in OutOfRangeTexts}) =>
    /\ Last.ret.isError
    /\ \A i \in DOMAIN ReturnedColors(Last.ret) : InDataModel(ReturnedColors(Last.ret)[i])

\* The functions that build a palette.
PaletteFunctions ==
  {"getComplementary", "getAnalogous", "getTriadic", "getTetradic", "getMonochromatic"}

\* The calls of a tool call to the functions in ops.
CallsTo(call, ops) == {k \in DOMAIN call.calls : call.calls[k].op \in ops}

\* count is a whole number from 3 to 10.
CountInRange(count) ==
  count.type = "number" /\ count.frac = 0 /\ count.val \in MinCount..MaxCount

\* C19: generatePalette answers a request whose count is present and is not
\* an integer in [3,10] with an error result, having called no palette
\* function; every call it makes to getMonochromatic has a count in [3,10],
\* and the count is 5 when the request has none.
C19_CountValidated ==
  (hist # <<>> /\ Last.op = "generatePalette") =>
    /\ (Last.arg.count # Undefined /\ ~CountInRange(Last.arg.count)) =>
         (Last.ret.isError /\ CallsTo(Last, PaletteFunctions) = {})
    /\ \A k \in CallsTo(Last, {"getMonochromatic"}) :
         /\ Last.calls[k].arg.count \in MinCount..MaxCount
         /\ Last.arg.count = Undefined => Last.calls[k].arg.count = DefaultCount

C19_Witness ==
  /\ hist # <<>> /\ Last.op = "generatePalette"
  /\ Last.arg.baseColor = Str("hsl(210, 50%, 29%)")
  /\ Last.arg.type = Str("monochromatic")
  /\ Last.arg.count = Num(MaxCount + 1)
  /\ Last.ret.isError /\ ~Last.ret.structuredContent.success
  /\ Last.calls = <<>>

\* The tools that call parseColor.
ParsingTools == {"getColorInfo", "convertColor", "generatePalette", "saveFavoriteColor"}

\* parseColor, called by the tool call, raised InvalidFormat.
RaisedInvalidFormat(call) ==
  /\ call.calls # <<>>
  /\ call.calls[1].op = "parseColor"
  /\ parseColor(call.calls[1].arg) = InvalidFormat

EndsWith(s, t) == Len(t) <= Len(s) /\ SubSeq(s, Len(s) - Len(t) + 1, Len(s)) = t

\* C20: when parseColor raises InvalidFormat in getColorInfo, convertColor,
\* generatePalette or saveFavoriteColor, the tool throws nothing and returns a
\* result with isError true, success false and the message of the error in
\* its text; parseColor is called once and nothing is called after it, and
\* saveFavoriteColor leaves the table as it was.
C20_InvalidFormatReachesCaller ==
  (hist # <<>> /\ Last.op \in ParsingTools /\ RaisedInvalidFormat(Last)) =>
    /\ {"content", "structuredContent", "isError"} \subseteq DOMAIN Last.ret
    /\ Last.ret.isError
    /\ ~Last.ret.structuredContent.success
    /\ EndsWith(Last.ret.content[1].text, InvalidFormat.error)
    /\ Len(Last.calls) = 1
    /\ Last.op = "saveFavoriteColor" => db = Last.before

C20_Witness ==
  /\ hist # <<>> /\ Last.op = "saveFavoriteColor"
  /\ Last.arg.color = Str("notacolor") /\ Last.arg.userId = Num(1)
  /\ Last.before # {} /\ db = Last.before
  /\ Last.calls = <<Call("parseColor", "notacolor")>>
  /\ Last.ret.isError /\ ~Last.ret.structuredContent.success
  /\ Last.ret.content[1].text =
       "Failed to save favorite color: Invalid color format. Use HEX (#RRGGBB), RGB (rgb(r,g,b)), or HSL (hsl(h,s%,l%))"

\* Two rows of one user with one hex.
SameKey(r1, r2) == r1.user_id = r2.user_id /\ r1.hex = r2.hex

\* A saveFavoriteColor call that succeeded.
Saved(call) == call.op = "saveFavoriteColor" /\ ~call.ret.isError

\* The parameters of the query a successful save made.
SavedParams(call) == call.calls[Len(call.calls)].arg

\* r2 is r1 but for name and updated_at.
SameButNameAndUpdate(r1, r2) ==
  [r1 EXCEPT !.name = "", !.updated_at = 0] = [r2 EXCEPT !.name = "", !.updated_at = 0]

C22_HslToRgbRange ==
  (hist # <<>> /\ Last.op = "hslToRgb" /\ InRangeHsl(Last.arg)) =>
    /\ InRangeRgb(Last.ret)
    /\ Last.arg.s = 0 =>
         /\ NearestTo(Last.ret.r, MaxChannel * Last.arg.l, MaxPercent)
         /\ Last.ret.g = Last.ret.r /\ Last.ret.b = Last.ret.r

C22_Witness ==
  /\ hist # <<>> /\ Last.op = "hslToRgb"
  /\ Last.arg = Hsl(240, 0, 51)
  /\ Last.ret = Rgb(130, 130, 130)

PropertyTools ==
  {"searchProperties", "calculatePropertySavings", "getPropertyDetails",
   "saveFavoriteProperty", "getFavoriteProperties"}

\* The steps of hist at which a property tool was called.
ToolSteps == {k \in DOMAIN hist : hist[k].op \in PropertyTools}

\* authenticateApiKey passed the request before step k.
PassedBefore(k) ==
  \E j \in 1..(k - 1) : hist[j].op = "authenticateApiKey" /\ hist[j].ret.next

\* The request does not pass the validation its route states.
FailsRouteValidation(req) ==
  \/ /\ req.route = "POST /savings/calculate"
     /\ (req.price.type # "number" \/ Doubled(req.price) <= 0)
  \/ /\ req.route = "GET /properties/:propertyId"
     /\ (req.state.type # "string" \/ Len(req.state.val) # 2)
  \/ /\ req.route = "POST /favorites"
     /\ (req.propertyId = Undefined \/ req.state = Undefined)

\* C23: on the five /api routes a property tool is called only after
\* authenticateApiKey has passed the request; and a request that has passed
\* it and fails the validation of its route (price missing, not a number or
\* <= 0; state missing or not 2 characters; propertyId or state missing) is
\* answered 400 with no tool called.
C23_AuthThenValidation ==
  /\ \A k \in ToolSteps : PassedBefore(k)
  /\ (hist # <<>> /\ Last.op = "response" /\ PassedBefore(Len(hist))
      /\ FailsRouteValidation(Request)) =>
       (Last.status = 400 /\ ToolSteps = {})

C23_Witness ==
  /\ Len(hist) = 3
  /\ Request.route = "POST /savings/calculate" /\ Request.price = Num(-5)
  /\ hist[2].op = "authenticateApiKey" /\ hist[2].ret.next
  /\ hist[2].ret.userId = Num(1)
  /\ Last.op = "response" /\ Last.status = 400

\* The fraction f is the whole number n.
IsWhole(f, n) == f.num = n * f.den

\* The savings a getPropertyDetails step reports, with the property they are of.
DetailsSteps ==
  {k \in DOMAIN hist : hist[k].op = "getPropertyDetails" /\ ~hist[k].ret.isError}

Reported(k) == hist[k].ret.structuredContent.properties[1]

\* C24: the savings calculateSavings returns for a property are
\* priceDifference = property_price - property_price_with_hbm, buyerAgentFee =
\* 3% of property_price and totalSavings = priceDifference + buyerAgentFee;
\* list 1,000,000 and HBM price 980,000 give 20,000, 30,000 and 50,000.
C24_Savings ==
  \A k \in DetailsSteps :
    LET p == Reported(k)
        s == Reported(k).savings
    IN /\ s.priceDifference = p.property_price - p.property_price_with_hbm
       /\ 100 * s.buyerAgentFee.num = 3 * p.property_price * s.buyerAgentFee.den
       /\ s.totalSavings.num * s.buyerAgentFee.den
            = (s.priceDifference * s.buyerAgentFee.den + s.buyerAgentFee.num)
              * s.totalSavings.den
       /\ (p.property_price = 1000000 /\ p.property_price_with_hbm = 980000) =>
            /\ s.priceDifference = 20000
            /\ IsWhole(s.buyerAgentFee, 30000)
            /\ IsWhole(s.totalSavings, 50000)

C24_Witness ==
  \E k \in DetailsSteps :
    /\ Reported(k).property_price = 1000000
    /\ Reported(k).property_price_with_hbm = 980000
    /\ Reported(k).savings.priceDifference = 20000
    /\ IsWhole(Reported(k).savings.buyerAgentFee, 30000)
    /\ IsWhole(Reported(k).savings.totalSavings, 50000)

\* The request passes GeneratePaletteSchema.
ValidPaletteRequest(arg) ==
  /\ arg.baseColor.type = "string" /\ arg.baseColor.val # ""
  /\ arg.type.type = "string" /\ arg.type.val \in PaletteTypes
  /\ arg.count = Undefined \/ CountInRange(arg.count)

\* A color of a result without its name.
Unnamed(c) == [hex |-> c.hex, rgb |-> c.rgb, hsl |-> c.hsl]

\* The number of colors the palette of a request has.
ClaimedSize(arg) ==
  IF arg.type.val = "complementary" THEN 2
  ELSE IF arg.type.val \in {"analogous", "triadic"} THEN 3
  ELSE IF arg.type.val = "tetradic" THEN 4
  ELSE IF arg.count = Undefined THEN 5
  ELSE arg.count.val

\* The result of the call is the palette of the request, base its parsed color.
ClaimedPalette(call, base) ==
  /\ ~call.ret.isError /\ call.ret.structuredContent.success
  /\ Len(call.ret.structuredContent.colors) = ClaimedSize(call.arg)
  /\ call.arg.type.val = "complementary" =>
       /\ Unnamed(call.ret.structuredContent.colors[1]) = base
       /\ Unnamed(call.ret.structuredContent.colors[2]) = getComplementary(base)
  /\ \A i \in DOMAIN call.ret.structuredContent.colors :
       call.ret.structuredContent.colors[i].name
         = getColorName(Unnamed(call.ret.structuredContent.colors[i]))

\* C25: for every valid request generatePalette returns 2 colors for
\* complementary (the parsed base color, unchanged, then its complement), 3 for
\* analogous, 3 for triadic, 4 for tetradic and count (5 when absent) for
\* monochromatic, and the name of every returned color is getColorName of it.
C25_PaletteSizes ==
  (/\ hist # <<>> /\ Last.op = "generatePalette"
   /\ ValidPaletteRequest(Last.arg)) =>
    \A base \in {parseColor(Last.arg.baseColor.val)} :
      ~Threw(base) => ClaimedPalette(Last, base)

C25_Witness ==
  /\ hist # <<>> /\ Last.op = "generatePalette"
  /\ Last.arg.baseColor = Str("#f00") /\ Last.arg.type = Str("complementary")
  /\ Last.arg.count = Undefined
  /\ Len(Last.ret.structuredContent.colors) = 2
  /\ Last.ret.structuredContent.colors[1].hex = "#F00"
  /\ Last.ret.structuredContent.colors[1].name = "Vivid Red"
  /\ Last.ret.structuredContent.colors[2].hsl = Hsl(180, 100, 50)
  /\ Last.ret.structuredContent.colors[2].name = "Vivid Cyan"

\* The whole of s is the text rgb(r,g,b).
WholeRgbForm(s) ==
  /\ Len(s) > 4 /\ ToLowerCase(SubSeq(s, 1, 4)) = "rgb(" /\ CharAt(s, Len(s)) = ")"
  /\ \E p \in Positions(s, ","), q \in Positions(s, ",") :
       /\ AllDigits(s, 5, p - 1)
       /\ SpacedDigits(s, p + 1, q - 1)
       /\ SpacedDigits(s, q + 1, Len(s) - 1)

\* The whole of s is the text hsl(h,s%,l%).
WholeHslForm(s) ==
  /\ Len(s) > 4 /\ ToLowerCase(SubSeq(s, 1, 4)) = "hsl(" /\ CharAt(s, Len(s)) = ")"
  /\ \E p \in Positions(s, ","), q \in Positions(s, ",") :
       /\ AllDigits(s, 5, p - 1)
       /\ CharAt(s, q - 1) = "%" /\ SpacedDigits(s, p + 1, q - 2)
       /\ CharAt(s, Len(s) - 1) = "%" /\ SpacedDigits(s, q + 1, Len(s) - 2)

\* C26 as stated: parseColor succeeds only when the whole trimmed input is one
\* of the four recognized forms; an input that holds an rgb(...) or hsl(...)
\* text among other text, such as "xrgb(1,2,3)y" or "rgb(1,2,3) and more",
\* fails with InvalidFormat.
C26_WholeInputOnly ==
  (/\ hist # <<>> /\ Last.op = "parseColor"
   /\ ~HashPrefixed(Trim(Last.arg)) /\ ~SixHexDigits(Trim(Last.arg))
   /\ ~WholeRgbForm(Trim(Last.arg)) /\ ~WholeHslForm(Trim(Last.arg)))
  => Last.ret = InvalidFormat

\* The rows of the table a result of getFavorites shows, in its order.
ShownRows(call) ==
  [i \in DOMAIN call.ret.structuredContent.colors |->
     {r \in call.before : /\ FavoriteOf(r) = call.ret.structuredContent.colors[i]
                          /\ r.user_id = call.arg.userId.val}]

\* C27: saveFavoriteColor and getFavorites called without a userId (undefined
\* or 0) return an error result (isError true, success false) and make no
\* query; getFavorites(userId) returns the rows whose user_id is userId and no
\* other, the newest created_at first.
C27_FavoritesOfUser ==
  (hist # <<>> /\ Last.op \in {"saveFavoriteColor", "getFavorites"}) =>
    /\ Last.arg.userId \in {Undefined, Num(0)} =>
         /\ Last.ret.isError /\ ~Last.ret.structuredContent.success
         /\ Last.calls = <<>> /\ db = Last.before
    /\ (Last.op = "getFavorites" /\ Last.arg.userId \notin {Undefined, Num(0)}) =>
         /\ ~Last.ret.isError /\ db = Last.before
         /\ Len(Last.ret.structuredContent.colors)
              = Cardinality({r \in Last.before : r.user_id = Last.arg.userId.val})
         /\ \A i \in DOMAIN ShownRows(Last) : ShownRows(Last)[i] # {}
         /\ \A i, j \in DOMAIN ShownRows(Last) :
              i < j => \A r \in ShownRows(Last)[i], q \in ShownRows(Last)[j] :
                         r.created_at > q.created_at

C27_Witness ==
  /\ hist # <<>> /\ Last.op = "getFavorites" /\ Last.arg.userId = Num(1)
  /\ \E r, q \in db :
       /\ r.user_id = 1 /\ q.user_id = 2 /\ r.hex = "#FF0000" /\ q.hex = "#FF0000"
  /\ Len(Last.ret.structuredContent.colors) = 1
  /\ Last.ret.structuredContent.colors[1].hex = "#FF0000"
  /\ Last.calls = <<Call("query", [user_id |-> 1])>>

\* Two rows of the table hold the same color: the same RGB value.
SameColor(r, q) == r.rgb_r = q.rgb_r /\ r.rgb_g = q.rgb_g /\ r.rgb_b = q.rgb_b

\* C28 as stated: after any sequence of saveFavoriteColor calls a user has at
\* most one favorite row for each color (RGB value), however the color was
\* spelled when it was saved ("#f00", "#FF0000", "ff0000", "rgb(255, 0, 0)").
C28_OneRowPerColor ==
  \A r, q \in db : (r.user_id = q.user_id /\ SameColor(r, q)) => r = q

\* The steps of a save, each of one widget.
SaveSteps ==
  {"handleSaveFavorite", "callTool resolves", "callTool rejects", "save timer fires"}

\* What holds of the save button of widget w after every step.
SaveSettled(w) ==
  /\ ui.calls[w] <= 1
  /\ (hist # <<>> /\ Last.op \in SaveSteps /\ Last.arg = w) =>
       /\ Last.op \in {"callTool resolves", "callTool rejects"} => ~ui[w].isSaving
       /\ Last.op = "callTool rejects" =>
            /\ ui[w].isSaved = Last.before[w].isSaved
            /\ ui.saveTimers[w] = Last.before.saveTimers[w]
       /\ Last.op = "callTool resolves" => ui[w].isSaved
       /\ Last.op = "handleSaveFavorite" =>
            /\ ~Last.before[w].isSaving /\ ~Last.before[w].isSaved
            /\ Last.before.calls[w] = 0

\* C29: in ColorSwatch and PropertyCard every save attempt ends with isSaving
\* false, whether callTool resolves or rejects; a rejected callTool does not
\* set isSaved; a resolved one sets it, and it returns to false once the
\* 3000 ms timer fires; while isSaving or isSaved is true the button is
\* disabled and no second save call starts.
C29_SaveCycle ==
  /\ [](\A w \in Widgets : SaveSettled(w))
  /\ \A w \in Widgets : ui[w].isSaved ~> ~ui[w].isSaved

C29_Witness ==
  /\ hist # <<>> /\ Last.op = "save timer fires"
  /\ Last.arg = "PropertyCard"
  /\ Last.before.PropertyCard.isSaved /\ ~ui.PropertyCard.isSaved
  /\ ~ui.PropertyCard.isSaving /\ ui.calls["PropertyCard"] = 0
  /\ ui.ColorSwatch.isSaving /\ ui.calls["ColorSwatch"] = 1

\* C30 as stated: in ColorSwatch the copied indicator a successful copy set
\* stays until the 2000 ms timer that copy started fires; the timer of an
\* earlier copy does not clear the indicator of a later copy.
C30_OwnTimerClears ==
  (/\ hist # <<>> /\ Last.op = "copy timer fires"
   /\ Last.before.ColorSwatch.copiedValue # Null
   /\ Last.arg # Last.before.copiedBy)
  => ui.ColorSwatch.copiedValue = Last.before.ColorSwatch.copiedValue

====
